---- MODULE Spec2Model ----
(***************************************************************************)
(* The database-diagnostics dispatcher of                                  *)
(* 02-use-cases/DB-performance-analyzer/scripts/pgstat_analyse_database.py *)
(* as a state machine: one request to lambda_handler, step by step, with   *)
(* the parameter store, the secret store and the database as the           *)
(* nondeterministic environment.                                           *)
(***************************************************************************)
EXTENDS Integers, Sequences, FiniteSets, TLC

(***************************************************************************)
(* Bounds of the model.                                                    *)
(***************************************************************************)
\* rows the database returns in total during one request
MaxRows == 3
\* named queries the database fails during one request
MaxFailures == 1
\* rows in the results handed to a formatter on its own
MaxFmtRows == 2
\* rows the database returns to one of two concurrent requests
MaxConcRows == 1
\* nodes the chat-agent graph runs in one invocation
MaxSteps == 5

(***************************************************************************)
(* Encodings.                                                              *)
(*   NONE  python None as returned by dict.get for an absent key           *)
(*   NULL  SQL null in a row (every real column value here is >= 0)        *)
(***************************************************************************)
NONE == "<None>"
NULL == 0 - 1

Range(s) == {s[i] : i \in 1..Len(s)}

(***************************************************************************)
(* lambda_handler: the chain of  if action_type == ...  tests.             *)
(***************************************************************************)
RegisteredActions ==
    {"slow_query", "connection_management_issues", "index_analysis",
     "autovacuum_analysis", "io_analysis", "replication_analysis",
     "system_health", "vacuum_progress", "xid_analysis", "bloat_analysis",
     "long_running_transactions"}

\* the text of the unknown-action branch after "Available actions: "
AvailableActionsText ==
    <<"slow_query", "connection_management_issues", "index_analysis",
      "autovacuum_analysis", "io_analysis", "replication_analysis",
      "system_health", "vacuum_progress", "xid_analysis", "bloat_analysis",
      "long_running_transactions">>

(***************************************************************************)
(* The requests: the flat shape {environment, action_type} and the nested  *)
(* shape {arguments: {environment, action_type}}, the latter with or       *)
(* without stray top-level values.  A key that is absent reads as NONE.    *)
(***************************************************************************)
EnvironmentValues == {NONE, "", "dev", "prod", "staging"}
ActionValues == RegisteredActions \cup {NONE, "", "bogus"}
Args == [environment : EnvironmentValues, action_type : ActionValues]
NoArgs == [environment |-> NONE, action_type |-> NONE]
Events ==
    {[nested |-> FALSE, top |-> t, arguments |-> NoArgs] : t \in Args} \cup
    {[nested |-> TRUE, top |-> t, arguments |-> n] :
        t \in {NoArgs, [environment |-> "prod", action_type |-> "system_health"]},
        n \in Args}

(***************************************************************************)
(* The queries dict of each execute_* routine: its keys, in insertion      *)
(* order.  The three single-statement routines have one unnamed query; it  *)
(* is named <action>.query here.                                           *)
(***************************************************************************)
queries(a) ==
    CASE a = "slow_query" ->
           <<"active_slow_queries", "top_queries_by_avg_time",
             "top_queries_by_calls", "slow_queries_detailed",
             "high_io_queries", "high_temp_queries", "blocking_queries">>
      [] a = "connection_management_issues" ->
           <<"current_connections", "connection_stats", "idle_connections",
             "locked_queries">>
      [] a = "index_analysis" ->
           <<"unused_indexes", "missing_indexes", "index_efficiency">>
      [] a = "autovacuum_analysis" ->
           <<"current_vacuum_progress", "tables_eligible_for_vacuum",
             "tables_high_dead_tuple_ratio", "oldest_xid_all_databases",
             "oldest_xid_by_database", "percent_towards_xid_wraparound",
             "tables_with_oldest_relfrozenxid", "vacuum_blockers",
             "inactive_replication_slots", "prepared_transactions">>
      [] a = "io_analysis" ->
           <<"buffer_usage", "checkpoint_activity", "io_statistics">>
      [] a = "replication_analysis" ->
           <<"aurora_replica_status", "replication_slots",
             "replication_connections">>
      [] a = "system_health" ->
           <<"database_statistics", "lock_contention",
             "long_running_transactions">>
      [] a = "vacuum_progress" -> <<"vacuum_progress.query">>
      [] a = "xid_analysis" ->
           <<"oldest_xid_all_databases", "oldest_xid_by_database",
             "percent_towards_wraparound",
             "tables_with_oldest_relfrozenxid">>
      [] a = "bloat_analysis" -> <<"bloat_analysis.query">>
      [] a = "long_running_transactions" ->
           <<"long_running_transactions.query">>

\* the routines that return a bare list of rows instead of a dict
ReturnsList(a) ==
    a \in {"vacuum_progress", "bloat_analysis", "long_running_transactions"}

\* the routines that first run  CREATE EXTENSION IF NOT EXISTS pg_stat_statements
IssuesSetup(a) ==
    a \in {"slow_query", "connection_management_issues", "index_analysis",
           "autovacuum_analysis", "io_analysis", "replication_analysis",
           "system_health"}

\* the routines whose loop body is wrapped in  try ... except: results[name] = []
PerQueryTry(a) ==
    a \in {"connection_management_issues", "index_analysis",
           "autovacuum_analysis", "io_analysis", "replication_analysis",
           "system_health", "xid_analysis"}

\* the routines that call connect_to_db inside their  try  block
ConnectInsideTry(a) ==
    a \notin {"io_analysis", "replication_analysis", "system_health"}

\* the prefix of the exception each routine raises from its  except  clause
FailedToRetrieve(a) ==
    CASE a = "slow_query" -> "Failed to retrieve slow queries: "
      [] a = "connection_management_issues" ->
           "Failed to retrieve connection metrics: "
      [] a = "index_analysis" -> "Failed to retrieve index metrics: "
      [] a = "autovacuum_analysis" -> "Failed to retrieve autovacuum metrics: "
      [] a = "io_analysis" -> "Failed to retrieve I/O metrics: "
      [] a = "replication_analysis" ->
           "Failed to retrieve replication metrics: "
      [] a = "system_health" -> "Failed to retrieve system health metrics: "
      [] a = "vacuum_progress" -> "Failed to retrieve vacuum progress: "
      [] a = "xid_analysis" -> "Failed to retrieve XID analysis: "
      [] a = "bloat_analysis" -> "Failed to retrieve bloat analysis: "
      [] a = "long_running_transactions" ->
           "Failed to retrieve long-running transactions: "

(***************************************************************************)
(* Rows.  A row is a record of the columns on which a formatter computes,  *)
(* compares or applies a format specification; columns that are only       *)
(* interpolated as text ({row['x']}) cannot change a formatter's control   *)
(* flow and are represented by the row's item line.  Percentages are kept  *)
(* in hundredths of a percent (9000 is 90.00%).                            *)
(***************************************************************************)
PlainRow == [plain |-> 1]

\* SQL of "buffer_usage": CASE WHEN read + hit > 0 THEN (hit / (read + hit)
\* * 100)::numeric(10,2) ELSE 0 END as hit_percentage
HitPercentage_Mutant(read, hit) ==
    IF read + hit > 0 THEN (hit * 20000 + (read + hit)) \div (2 * (read + hit))
    ELSE 10000

HitPercentage(read, hit) ==
    IF read + hit > 0 THEN (hit * 20000 + (read + hit)) \div (2 * (read + hit))
    ELSE 0

BufferUsageRow(read, hit) ==
    [heap_blks_read |-> read, heap_blks_hit |-> hit,
     hit_percentage |-> HitPercentage(read, hit)]

BlockCounts == {0, 1, 9}

Rows(q) ==
    CASE q = "buffer_usage" ->
           {BufferUsageRow(r, h) : r \in BlockCounts, h \in BlockCounts}
      [] q = "checkpoint_activity" ->
           [checkpoints_timed : {1, NULL}, checkpoints_req : {0, 2}]
      [] q = "io_statistics" ->
           [heap_blks_read : {0, 1, NULL}, heap_blks_hit : {0, 9},
            idx_blks_read : {0}, idx_blks_hit : {0, 9}]
      [] q = "aurora_replica_status" -> [lag_seconds : {0, 30, 31, NULL}]
      [] q = "replication_slots" -> [active : {0, 1, NULL}]
      [] q = "replication_connections" ->
           [lag_bytes : {0, 100000000, 100000001, NULL}]
      [] q = "database_statistics" ->
           [blks_read : {0, 1}, blks_hit : {0, 9}, deadlocks : {0, 2, NULL},
            conflicts : {0, 1}, temp_files : {1000, 1001}]
      [] q = "lock_contention" -> [relation : {1, 2}, granted : {0, 1}]
      [] q = "long_running_transactions" -> [xact_age : {0, 1, 2, NULL}]
      [] q = "long_running_transactions.query" ->
           [xact_age_hours : {1, NULL}, query_age_hours : {1, NULL},
            query : {1, NULL}]
      [] q \in {"percent_towards_xid_wraparound",
                "percent_towards_wraparound"} ->
           [percent_towards_wraparound : {75, 76}]
      [] OTHER -> {PlainRow}

\* the rows the database is taken to answer with during a request: one
\* ordinary row per query, and for some queries one row holding a null
HandlerRows(q) ==
    CASE q = "buffer_usage" -> {BufferUsageRow(1, 9), BufferUsageRow(0, 0)}
      [] q = "checkpoint_activity" ->
           {[checkpoints_timed |-> 1, checkpoints_req |-> 0]}
      [] q = "io_statistics" ->
           {[heap_blks_read |-> 0, heap_blks_hit |-> 0, idx_blks_read |-> 0,
             idx_blks_hit |-> 0],
            [heap_blks_read |-> NULL, heap_blks_hit |-> 0, idx_blks_read |-> 0,
             idx_blks_hit |-> 0]}
      [] q = "aurora_replica_status" -> {[lag_seconds |-> 31]}
      [] q = "replication_slots" -> {[active |-> 1]}
      [] q = "replication_connections" ->
           {[lag_bytes |-> 0], [lag_bytes |-> NULL]}
      [] q = "database_statistics" ->
           {[blks_read |-> 0, blks_hit |-> 0, deadlocks |-> 0, conflicts |-> 0,
             temp_files |-> 1000],
            [blks_read |-> 1, blks_hit |-> 9, deadlocks |-> 2, conflicts |-> 0,
             temp_files |-> 1000]}
      [] q = "lock_contention" -> {[relation |-> 1, granted |-> 0]}
      [] q = "long_running_transactions" -> {[xact_age |-> 2]}
      [] q = "long_running_transactions.query" ->
           {[xact_age_hours |-> 1, query_age_hours |-> 1, query |-> 1],
            [xact_age_hours |-> 1, query_age_hours |-> 1, query |-> NULL]}
      [] q \in {"percent_towards_xid_wraparound",
                "percent_towards_wraparound"} ->
           {[percent_towards_wraparound |-> 76]}
      [] OTHER -> {PlainRow}

(***************************************************************************)
(* The value an execute_* routine returns: a dict (its items, in insertion *)
(* order, as <<key, rows>> pairs) or a bare list of rows.                  *)
(***************************************************************************)
EmptyDict == [type |-> "dict", items |-> <<>>, list |-> <<>>]
ListResult(rows) == [type |-> "list", items |-> <<>>, list |-> rows]

\* results[name] = rows  (name is not yet a key: each name is run once)
DictSet_Mutant(results, name, rows) ==
    [results EXCEPT !.items =
        Append(@, <<IF name = "tables_eligible_for_vacuum"
                    THEN "tables_needing_vacuum" ELSE name, rows>>)]

DictSet(results, name, rows) ==
    [results EXCEPT !.items = Append(@, <<name, rows>>)]

Keys(results) == [i \in 1..Len(results.items) |-> results.items[i][1]]

\* results.get(key), with None read as the empty list (both are falsy)
Get(results, key) ==
    IF \E i \in 1..Len(results.items) : results.items[i][1] = key
    THEN results.items[CHOOSE i \in 1..Len(results.items) :
                          results.items[i][1] = key][2]
    ELSE <<>>

(***************************************************************************)
(* Reports.  The text a formatter builds is kept as the sequence of its    *)
(* lines; a line is [k, s, t, v]: its kind, the results key of the section *)
(* it belongs to, its fixed text and the value interpolated into it.       *)
(* A formatter that raises yields Raised.  The warning sign that starts    *)
(* the warning lines in the source is left out of the texts.               *)
(***************************************************************************)
L(k, s, t, v) == [k |-> k, s |-> s, t |-> t, v |-> v]
Ok(lines) == [ok |-> TRUE, lines |-> lines]
Raised == [ok |-> FALSE, lines |-> <<>>]
Cat(r1, r2) == IF r1.ok /\ r2.ok THEN Ok(r1.lines \o r2.lines) ELSE Raised
When(c, lines) == IF c THEN lines ELSE <<>>

\* f"{x:.2f}" of the percentage num / den * 100, in hundredths
Pct2(num, den) == (num * 20000 + den) \div (2 * den)

\* the fixed tables of each dict formatter: title, and per section the key
\* it reads with results.get, its heading and its else-branch sentence
Title(a) ==
    CASE a = "slow_query" -> "Database Performance Analysis Report"
      [] a = "connection_management_issues" ->
           "Database Connection Management Analysis Report"
      [] a = "index_analysis" -> "Database Index Analysis Report"
      [] a = "autovacuum_analysis" -> "Database Autovacuum Analysis Report"
      [] a = "io_analysis" -> "Database I/O Analysis Report"
      [] a = "replication_analysis" -> "Database Replication Analysis Report"
      [] a = "system_health" -> "Database System Health Report"

Sec(key, header, fallback) ==
    [key |-> key, header |-> header, fallback |-> fallback]

Sections(a) ==
    CASE a = "slow_query" ->
           <<Sec("slow_queries", "=== TOP 20 SLOW QUERIES ===",
                 "No slow queries found."),
             Sec("high_io_queries", "=== TOP 10 HIGH I/O QUERIES ===",
                 "No high I/O queries found."),
             Sec("high_temp_queries", "=== TOP 10 HIGH TEMP USAGE QUERIES ===",
                 "No high temp usage queries found."),
             Sec("blocking_queries", "=== BLOCKING QUERIES ===",
                 "No blocking queries found.")>>
      [] a = "connection_management_issues" ->
           <<Sec("current_connections", "=== CURRENT CONNECTIONS ===",
                 "No current connections found."),
             Sec("connection_stats", "=== DATABASE CONNECTION STATISTICS ===",
                 "No connection statistics available."),
             Sec("idle_connections", "=== IDLE CONNECTIONS ===",
                 "No idle connections found."),
             Sec("locked_queries", "=== LOCKED QUERIES ===",
                 "No locked queries found.")>>
      [] a = "index_analysis" ->
           <<Sec("unused_indexes", "=== UNUSED INDEXES ===",
                 "No unused indexes found."),
             Sec("missing_indexes",
                 "=== POTENTIAL MISSING INDEXES (High Sequential Scans) ===",
                 "No tables with significant sequential scans found."),
             Sec("index_efficiency", "=== INDEX USAGE EFFICIENCY ===",
                 "No index usage statistics found.")>>
      [] a = "autovacuum_analysis" ->
           <<Sec("tables_needing_vacuum", "=== TABLES NEEDING VACUUM ===",
                 "No tables with dead tuples found."),
             Sec("autovacuum_activity", "=== CURRENT AUTOVACUUM ACTIVITY ===",
                 "No active autovacuum processes found."),
             Sec("table_bloat", "=== TABLE BLOAT INFORMATION ===",
                 "No table bloat information available."),
             Sec("wraparound_status", "=== TRANSACTION WRAPAROUND STATUS ===",
                 "No wraparound status information available.")>>
      [] a = "io_analysis" ->
           <<Sec("buffer_usage", "=== BUFFER USAGE BY TABLE ===",
                 "No buffer usage statistics available."),
             Sec("checkpoint_activity", "=== CHECKPOINT ACTIVITY ===",
                 "No checkpoint activity information available."),
             Sec("io_statistics",
                 "=== DETAILED I/O STATISTICS (TOP 20 TABLES) ===",
                 "No I/O statistics available.")>>
      [] a = "replication_analysis" ->
           <<Sec("aurora_replica_status", "=== AURORA REPLICA STATUS ===",
                 "No Aurora replica status information available."),
             Sec("replication_slots", "=== REPLICATION SLOTS ===",
                 "No replication slots found."),
             Sec("replication_connections", "=== REPLICATION CONNECTIONS ===",
                 "No replication connections found.")>>
      [] a = "system_health" ->
           <<Sec("database_statistics", "=== DATABASE STATISTICS ===",
                 "No database statistics available."),
             Sec("lock_contention", "=== LOCK CONTENTION ===",
                 "No lock contention found."),
             Sec("long_running_transactions",
                 "=== LONG-RUNNING TRANSACTIONS (> 5 minutes) ===",
                 "No long-running transactions found.")>>

\* 'hours' in str(x) or 'days' in str(x), for the interval texts
\* 0 "0:10:00", 1 "1 day, 0:10:00", 2 "2 days, 0:10:00" and NULL "None"
MentionsHoursOrDays(x) == x = 2

\* the three checks that close a database_statistics row's block
StatisticsWarnings_Mutant(key, row) ==
    When(row.deadlocks > 0,
         <<L("warning", key, "Warning: Deadlocks detected!", 0)>>) \o
    When(row.conflicts > 0,
         <<L("warning", key, "Warning: Conflicts detected!", 0)>>) \o
    When(row.temp_files >= 1000,
         <<L("warning", key,
             "Warning: High number of temporary files created!", 0)>>)

StatisticsWarnings(key, row) ==
    When(row.deadlocks > 0,
         <<L("warning", key, "Warning: Deadlocks detected!", 0)>>) \o
    When(row.conflicts > 0,
         <<L("warning", key, "Warning: Conflicts detected!", 0)>>) \o
    When(row.temp_files > 1000,
         <<L("warning", key,
             "Warning: High number of temporary files created!", 0)>>)

(***************************************************************************)
(* The body of a formatter's  for idx, row in enumerate(rows, 1)  loop.    *)
(* Arithmetic and comparison on a null column raise TypeError.             *)
(***************************************************************************)
RowLines(key, idx, row) ==
    LET item == L("item", key, "#", idx) IN
    CASE key = "slow_queries" ->
           \* round(query['total_time_sec'], 2) and its three siblings
           IF row.total_time_sec = NULL THEN Raised ELSE Ok(<<item>>)
      [] key = "wraparound_status" ->
           IF row.percent_towards_wraparound = NULL THEN Raised
           ELSE Ok(<<item>> \o
                   When(row.percent_towards_wraparound > 75,
                        <<L("warning", key,
                            "WARNING: Database is approaching transaction wraparound limit!",
                            0)>>))
      [] key = "buffer_usage" ->
           IF row.hit_percentage = NULL THEN Raised
           ELSE Ok(<<item,
                     L("field", key, "Buffer Hit Percentage",
                       row.hit_percentage)>> \o
                   When(row.hit_percentage < 9000,
                        <<L("warning", key,
                            "Warning: Low buffer hit ratio. Consider increasing shared_buffers.",
                            0)>>))
      [] key = "checkpoint_activity" ->
           IF row.checkpoints_req = NULL \/ row.checkpoints_timed = NULL
           THEN Raised
           ELSE Ok(<<item>> \o
                   When(row.checkpoints_req > row.checkpoints_timed,
                        <<L("warning", key,
                            "Warning: High number of requested checkpoints. Consider increasing checkpoint_timeout or max_wal_size.",
                            0)>>))
      [] key = "io_statistics" ->
           IF NULL \in {row.heap_blks_read, row.idx_blks_read,
                        row.heap_blks_hit, row.idx_blks_hit}
           THEN Raised
           ELSE LET total_reads == row.heap_blks_read + row.idx_blks_read
                    total_hits == row.heap_blks_hit + row.idx_blks_hit
                IN  Ok(<<item>> \o
                       When(total_reads + total_hits > 0,
                            <<L("field", key, "Overall Buffer Hit Ratio",
                                Pct2(total_hits, total_reads + total_hits))>>
                            \o When(total_hits * 100
                                      < 90 * (total_reads + total_hits),
                                    <<L("warning", key,
                                        "Warning: Low buffer hit ratio for this table.",
                                        0)>>)))
      [] key = "aurora_replica_status" ->
           IF row.lag_seconds = NULL THEN Raised
           ELSE Ok(<<item,
                     L("field", key, "Replication Lag", row.lag_seconds)>> \o
                   When(row.lag_seconds > 30,
                        <<L("warning", key,
                            "Warning: High replication lag detected!", 0)>>))
      [] key = "replication_slots" ->
           Ok(<<item>> \o
              When(row.active # 1,
                   <<L("warning", key,
                       "Warning: Inactive replication slot detected!", 0)>>))
      [] key = "replication_connections" ->
           IF row.lag_bytes = NULL THEN Raised
           ELSE Ok(<<item>> \o
                   When(row.lag_bytes > 100000000,
                        <<L("warning", key,
                            "Warning: Large replication lag detected!", 0)>>))
      [] key = "database_statistics" ->
           IF row.blks_read = NULL \/ row.blks_hit = NULL THEN Raised
           ELSE LET total_blocks == row.blks_read + row.blks_hit IN
                IF NULL \in {row.deadlocks, row.conflicts, row.temp_files}
                THEN Raised
                ELSE Ok(<<item>> \o
                        When(total_blocks > 0,
                             <<L("field", key, "Cache Hit Ratio",
                                 Pct2(row.blks_hit, total_blocks))>> \o
                             When(row.blks_hit * 100 < 90 * total_blocks,
                                  <<L("warning", key,
                                      "Warning: Low cache hit ratio. Consider increasing shared_buffers.",
                                      0)>>)) \o
                        StatisticsWarnings(key, row))
      [] key = "lock_contention" ->
           Ok(<<item>> \o
              When(row.granted # 1,
                   <<L("warning", key,
                       "Warning: Lock waiting to be granted!", 0)>>))
      [] key = "long_running_transactions" ->
           Ok(<<item>> \o
              When(MentionsHoursOrDays(row.xact_age),
                   <<L("warning", key,
                       "Warning: Transaction running for an extended period!",
                       0)>>))
      [] key = "long_running_transactions.query" ->
           \* {txn['xact_age_hours']:.2f}, {txn['query_age_hours']:.2f}
           \* and txn['query'][:100]
           IF NULL \in {row.xact_age_hours, row.query_age_hours, row.query}
           THEN Raised ELSE Ok(<<item>>)
      [] OTHER -> Ok(<<item>>)

RECURSIVE ForEachRow(_, _, _)
ForEachRow(key, rows, idx) ==
    IF idx > Len(rows) THEN Ok(<<>>)
    ELSE Cat(RowLines(key, idx, rows[idx]), ForEachRow(key, rows, idx + 1))

\* lock_groups of format_results_for_system_health: the relations of the
\* rows, in order of first appearance (the insertion order of the dict)
RECURSIVE LockGroups(_, _)
LockGroups(rows, seen) ==
    IF rows = <<>> THEN <<>>
    ELSE IF Head(rows).relation \in seen THEN LockGroups(Tail(rows), seen)
    ELSE <<Head(rows).relation>> \o
         LockGroups(Tail(rows), seen \cup {Head(rows).relation})

RECURSIVE ForEachGroup(_, _, _)
ForEachGroup(key, rows, groups) ==
    IF groups = <<>> THEN Ok(<<>>)
    ELSE LET relation == Head(groups)
             locks == SelectSeq(rows, LAMBDA r : r.relation = relation)
         IN  Cat(Cat(Ok(<<L("group", key, "Relation: ", relation)>>),
                     ForEachRow(key, locks, 1)),
                 ForEachGroup(key, rows, Tail(groups)))

\* the line a section adds after its loop
Recommendation(key) ==
    CASE key = "unused_indexes" ->
           <<L("note", key,
               "Recommendation: Consider removing these unused indexes to reduce maintenance overhead and storage space.",
               0)>>
      [] key = "missing_indexes" ->
           <<L("note", key,
               "Recommendation: Tables with high sequential scan ratios might benefit from additional indexes.",
               0)>>
      [] key = "index_efficiency" ->
           <<L("note", key,
               "Recommendation: Indexes with very low scans per byte might be candidates for removal or restructuring.",
               0)>>
      [] key = "tables_needing_vacuum" ->
           <<L("note", key,
               "Recommendation: Consider running VACUUM on tables with high dead tuple percentages.",
               0)>>
      [] OTHER -> <<>>

\* the then-branch of  if results.get(key):
SectionBody(key, rows) ==
    CASE key = "checkpoint_activity" -> RowLines(key, 1, rows[1])
      [] key = "lock_contention" ->
           ForEachGroup(key, rows, LockGroups(rows, {}))
      [] OTHER -> Cat(ForEachRow(key, rows, 1), Ok(Recommendation(key)))

\* one  output += heading; if results.get(key): ... else: output += sentence
SectionLines(sec, results) ==
    LET rows == Get(results, sec.key) IN
    Cat(Ok(<<L("header", sec.key, sec.header, 0)>>),
        IF rows # <<>> THEN SectionBody(sec.key, rows)
        ELSE Ok(<<L("fallback", sec.key, sec.fallback, 0)>>))

RECURSIVE ForEachSection(_, _, _)
ForEachSection(secs, results, i) ==
    IF i > Len(secs) THEN Ok(<<>>)
    ELSE Cat(SectionLines(secs[i], results),
             ForEachSection(secs, results, i + 1))

\* format_results_for_slow_query, _conn_issues, _index_analysis,
\* _autovacuum_analysis, _io_analysis, _replication_analysis, _system_health
FormatDict(a, results) ==
    Cat(Ok(<<L("title", "", Title(a), 0)>>),
        ForEachSection(Sections(a), results, 1))

\* the order in which format_results_for_xid_analysis reads its keys
XidKeys ==
    <<"oldest_xid_all_databases", "percent_towards_wraparound",
      "oldest_xid_by_database", "tables_with_oldest_relfrozenxid">>

XidSection(key, results) ==
    LET rows == Get(results, key) IN
    IF rows = <<>> THEN <<>>
    ELSE CASE key = "oldest_xid_all_databases" ->
                <<L("field", key, "Oldest XID across all databases: ", 1)>>
           [] key = "percent_towards_wraparound" ->
                <<L("header", key, "XID Wraparound Status:", 0),
                  L("item", key, "#", 1)>>
           [] key = "oldest_xid_by_database" ->
                <<L("header", key, "XID Age by Database:", 0)>> \o
                [i \in 1..Len(rows) |-> L("item", key, "#", i)]
           [] key = "tables_with_oldest_relfrozenxid" ->
                <<L("header", key, "Tables with Oldest relfrozenxid:", 0)>> \o
                [i \in 1..Len(rows) |-> L("item", key, "#", i)]

format_results_for_xid_analysis(results) ==
    Ok(<<L("title", "", "=== XID WRAPAROUND ANALYSIS ===", 0)>> \o
       XidSection(XidKeys[1], results) \o XidSection(XidKeys[2], results) \o
       XidSection(XidKeys[3], results) \o XidSection(XidKeys[4], results))

\* format_results_for_vacuum_progress, _bloat_analysis and
\* _long_running_transactions:  if not results: return sentence
ListHeader(a) ==
    CASE a = "vacuum_progress" -> "=== CURRENT VACUUM PROGRESS ==="
      [] a = "bloat_analysis" -> "=== TABLE BLOAT ANALYSIS ==="
      [] a = "long_running_transactions" -> "=== LONG-RUNNING TRANSACTIONS ==="

ListFallback(a) ==
    CASE a = "vacuum_progress" -> "No active vacuum operations found."
      [] a = "bloat_analysis" -> "No significant table bloat found."
      [] a = "long_running_transactions" ->
           "No long-running transactions found."

FormatList(a, results) ==
    LET key == queries(a)[1] IN
    IF results.list = <<>> THEN Ok(<<L("fallback", key, ListFallback(a), 0)>>)
    ELSE Cat(Ok(<<L("header", key, ListHeader(a), 0)>>),
             ForEachRow(key, results.list, 1))

\* the formatter lambda_handler calls for each action_type
Formatter_Mutant(a, results) ==
    IF ReturnsList(a) THEN FormatList(a, results)
    ELSE IF a = "xid_analysis" THEN format_results_for_xid_analysis(results)
    ELSE FormatDict(IF a = "io_analysis" THEN "system_health" ELSE a, results)

Formatter(a, results) ==
    IF ReturnsList(a) THEN FormatList(a, results)
    ELSE IF a = "xid_analysis" THEN format_results_for_xid_analysis(results)
    ELSE FormatDict(a, results)

(***************************************************************************)
(* The state of one request.                                               *)
(*   pc               the handler's position                               *)
(*   environment, action_type, secret_name, results, formatted_output      *)
(*                    lambda_handler's locals                              *)
(*   conn             the connection of the execute_* routine:             *)
(*                    "none", "open" or "closed"                           *)
(*   qi               index in queries(action_type) of the next query      *)
(*   exc              the exception in flight (message parts), or <<>>     *)
(*   calls            the calls made so far to the parameter store, the    *)
(*                    secret store, the database and the formatter         *)
(*   failed           the named queries whose execution raised             *)
(*   response         the value returned                                   *)
(*   db_opened        the connections the database has accepted so far     *)
(*   db_open          the connections that are open on the database now    *)
(***************************************************************************)
VARIABLES event, pc, environment, action_type, secret_name, conn, qi, exc,
          calls, failed, results, formatted_output, response, db_opened,
          db_open

vars == <<event, pc, environment, action_type, secret_name, conn, qi, exc,
          calls, failed, results, formatted_output, response, db_opened,
          db_open>>

\* a call, its argument and whether it returned (TRUE) or raised (FALSE)
Call(op, arg, ok) == [op |-> op, arg |-> arg, ok |-> ok]
SetupStatement == "CREATE EXTENSION IF NOT EXISTS pg_stat_statements"

NoResponse == [kind |-> "none", content |-> <<>>, body |-> <<>>]
Content(parts) == [kind |-> "content", content |-> parts, body |-> <<>>]
ResponseBody(lines) == [kind |-> "responseBody", content |-> <<>>, body |-> lines]

\* lambda_handler's  except Exception as e  clause
HandlerExcept_Mutant(e) ==
    [kind |-> "raised", content |-> e, body |-> <<>>]

HandlerExcept(e) == Content(<<"Error analyzing slow queries: ">> \o e)

MissingParameters ==
    Content(<<"Error: Missing required parameters. Need 'environment' and 'action_type'.">>)

UnknownAction(a) ==
    Content(<<"Error: Unknown action_type '", a, "'. Available actions: ">>
            \o AvailableActionsText)

\* python truthiness of a value read from the event
Falsy(v) == v \in {NONE, ""}

\* sequences over S of length at most n
BoundedSeqs(S, n) == UNION {[1..k -> S] : k \in 0..n}

RowCount(res) ==
    LET RECURSIVE Sum(_)
        Sum(i) == IF i > Len(res.items) THEN 0
                  ELSE Len(res.items[i][2]) + Sum(i + 1)
    IN  Sum(1) + Len(res.list)

Init ==
    /\ event \in Events
    /\ pc = "start"
    /\ environment = NONE
    /\ action_type = NONE
    /\ secret_name = NONE
    /\ conn = "none"
    /\ qi = 0
    /\ exc = <<>>
    /\ calls = <<>>
    /\ failed = {}
    /\ results = EmptyDict
    /\ formatted_output = <<>>
    /\ response = NoResponse
    /\ db_opened = 0
    /\ db_open = 0

(***************************************************************************)
(* lambda_handler, lines 1603-1619: read the two parameters and reject the *)
(* request when one of them is falsy.                                      *)
(***************************************************************************)
ArgsOf_Mutant(ev) == ev.top

ArgsOf(ev) == IF ev.nested THEN ev.arguments ELSE ev.top

IsMissing_Mutant(env, act) == Falsy(act)

IsMissing(env, act) == Falsy(env) \/ Falsy(act)

ParseEvent ==
    /\ pc = "start"
    /\ environment' = ArgsOf(event).environment
    /\ action_type' = ArgsOf(event).action_type
    /\ IF IsMissing(environment', action_type')
       THEN /\ response' = MissingParameters
            /\ pc' = "done"
       ELSE /\ response' = response
            /\ pc' = "get_env_secret"
    /\ UNCHANGED <<event, secret_name, conn, qi, exc, calls, failed, results,
                   formatted_output, db_opened, db_open>>

(***************************************************************************)
(* get_env_secret: create the parameter-store client, then look up         *)
(* /AuroraOps/<environment> for prod and dev, and raise for any other      *)
(* value.  A raise ends the request in lambda_handler's except clause.     *)
(***************************************************************************)
ParameterName_Mutant(env) ==
    CASE env = "prod" -> "/AuroraOps/prod"
      [] env = "dev" -> "/AuroraOps/prod"

ParameterName(env) ==
    CASE env = "prod" -> "/AuroraOps/prod"
      [] env = "dev" -> "/AuroraOps/dev"

\* the value stored under the parameter: the name of the secret
ParameterValue(name) ==
    CASE name = "/AuroraOps/prod" -> "secret-prod"
      [] name = "/AuroraOps/dev" -> "secret-dev"

get_env_secret ==
    /\ pc = "get_env_secret"
    /\ IF environment \in {"prod", "dev"}
       THEN \E outcome \in {"found", "ParameterNotFound", "other error"} :
            /\ calls' = calls \o <<Call("boto3.client", "ssm", TRUE),
                                   Call("get_parameter",
                                        ParameterName(environment),
                                        outcome = "found")>>
            /\ IF outcome = "found"
               THEN /\ secret_name' = ParameterValue(ParameterName(environment))
                    /\ pc' = "dispatch"
                    /\ response' = response
               ELSE /\ secret_name' = secret_name
                    /\ pc' = "done"
                    /\ response' =
                         HandlerExcept(
                           IF environment = "dev"
                           THEN <<"Failed to get dev secret name from Parameter Store: ",
                                  "<ssm error>">>
                           ELSE IF outcome = "ParameterNotFound"
                           THEN <<"Parameter not found: ",
                                  ParameterName(environment)>>
                           ELSE <<"<ssm error>">>)
       ELSE /\ calls' = Append(calls, Call("boto3.client", "ssm", TRUE))
            /\ secret_name' = secret_name
            /\ pc' = "done"
            /\ response' =
                 HandlerExcept(<<"Unknown environment: ", environment>>)
    /\ UNCHANGED <<event, environment, action_type, conn, qi, exc, failed,
                   results, formatted_output, db_opened, db_open>>

(***************************************************************************)
(* lambda_handler, lines 1626-1678: the if/elif chain over action_type.    *)
(***************************************************************************)
Dispatch_Mutant ==
    /\ pc = "dispatch"
    /\ calls' = calls \o <<Call("get_secret_value", secret_name, TRUE),
                           Call("psycopg2.connect", secret_name, TRUE),
                           Call("close", "", TRUE)>>
    /\ db_opened' = db_opened + 1
    /\ IF action_type \in RegisteredActions
       THEN /\ pc' = "connect"
            /\ response' = response
       ELSE /\ pc' = "done"
            /\ response' = UnknownAction(action_type)
    /\ UNCHANGED <<event, environment, action_type, secret_name, conn, qi,
                   exc, failed, results, formatted_output, db_open>>

Dispatch ==
    /\ pc = "dispatch"
    /\ IF action_type \in RegisteredActions
       THEN /\ pc' = "connect"
            /\ response' = response
       ELSE /\ pc' = "done"
            /\ response' = UnknownAction(action_type)
    /\ UNCHANGED <<event, environment, action_type, secret_name, conn, qi,
                   exc, calls, failed, results, formatted_output, db_opened,
                   db_open>>

(***************************************************************************)
(* The execute_* routines.  Each has the shape                             *)
(*     conn = connect_to_db(secret_name)                                   *)
(*     try: [setup statement; commit]  for each query: execute, fetch      *)
(*     except Exception as e: raise Exception("Failed to retrieve ...")    *)
(*     finally: if conn: conn.close()                                      *)
(* with connect_to_db inside or before the try.                            *)
(***************************************************************************)
\* except Exception as e: raise Exception(f"Failed to retrieve ...: {str(e)}")
Wrapped(a, e) == <<FailedToRetrieve(a)>> \o e

\* finally: if conn: conn.close()
FinallyClose_Mutant(c, e) == IF c = "open" /\ e = <<>> THEN "closed" ELSE c

FinallyClose(c, e) == IF c = "open" THEN "closed" ELSE c

\* psycopg2.connect returns a connection or raises: the connections it
\* leaves open on the database
Connected_Mutant(outcome) == IF outcome = "no secret" THEN 0 ELSE 1

Connected(outcome) == IF outcome = "connected" THEN 1 ELSE 0

\* connect_to_db: fetch the secret, then psycopg2.connect with its fields
connect_to_db_Mutant ==
    /\ pc = "connect"
    /\ \E outcome \in {"connected", "no secret", "no connection"} :
         /\ calls' = calls
                \o <<Call("boto3.client", "secretsmanager", TRUE),
                     Call("get_secret_value", secret_name,
                          outcome # "no secret")>>
                \o When(outcome # "no secret",
                        <<Call("psycopg2.connect", secret_name,
                               outcome = "connected")>>)
         /\ db_opened' = db_opened + Connected(outcome)
         /\ db_open' = db_open + Connected(outcome)
         /\ conn' = IF outcome = "connected" THEN "open" ELSE conn
         /\ pc' = IF IssuesSetup(action_type) THEN "setup" ELSE "query"
         /\ qi' = 1
         /\ UNCHANGED <<exc, response>>
    /\ UNCHANGED <<event, environment, action_type, secret_name, failed,
                   results, formatted_output>>

connect_to_db ==
    /\ pc = "connect"
    /\ \E outcome \in {"connected", "no secret", "no connection"} :
         /\ calls' = calls
                \o <<Call("boto3.client", "secretsmanager", TRUE),
                     Call("get_secret_value", secret_name,
                          outcome # "no secret")>>
                \o When(outcome # "no secret",
                        <<Call("psycopg2.connect", secret_name,
                               outcome = "connected")>>)
         /\ db_opened' = db_opened + Connected(outcome)
         /\ db_open' = db_open + Connected(outcome)
         /\ IF outcome = "connected"
            THEN /\ conn' = "open"
                 /\ pc' = IF IssuesSetup(action_type) THEN "setup" ELSE "query"
                 /\ qi' = 1
                 /\ UNCHANGED <<exc, response>>
            ELSE LET e == IF outcome = "no secret"
                          THEN <<"Failed to get secret: ", "<ClientError>">>
                          ELSE <<"Failed to connect to the database: ",
                                 "<psycopg2 error>">>
                 IN  /\ conn' = conn
                     /\ qi' = qi
                     /\ IF ConnectInsideTry(action_type)
                        THEN /\ exc' = Wrapped(action_type, e)
                             /\ pc' = "finally"
                             /\ response' = response
                        ELSE /\ exc' = exc
                             /\ pc' = "done"
                             /\ response' = HandlerExcept(e)
    /\ UNCHANGED <<event, environment, action_type, secret_name, failed,
                   results, formatted_output>>

\* the setup statement is not inside a per-query try: when it or its commit
\* raises, control goes to the routine's except clause
AfterSetup_Mutant(outcome) == "query"

AfterSetup(outcome) == IF outcome = "committed" THEN "query" ELSE "finally"

\* with conn.cursor() as cur: cur.execute(CREATE EXTENSION ...); conn.commit()
Setup ==
    /\ pc = "setup"
    /\ \E outcome \in {"committed", "execute failed", "commit failed"} :
         /\ calls' = calls
                \o <<Call("execute", SetupStatement,
                          outcome # "execute failed")>>
                \o When(outcome # "execute failed",
                        <<Call("commit", "", outcome = "committed")>>)
         /\ pc' = AfterSetup(outcome)
         /\ exc' = IF pc' = "finally"
                   THEN Wrapped(action_type, <<"<psycopg2 error>">>)
                   ELSE exc
    /\ UNCHANGED <<event, environment, action_type, secret_name, conn, qi,
                   failed, results, formatted_output, response, db_opened,
                   db_open>>

\* with conn.cursor() as cur: cur.execute(query); cur.fetchall()
\* the calls one named query makes on the connection
ExecuteAndFetch_Committing(name, ok) ==
    <<Call("execute", name, ok)>>
    \o (IF ok THEN <<Call("commit", "", TRUE)>>
               ELSE <<Call("rollback", "", TRUE)>>)

ExecuteAndFetch_RollingBack(name, ok) ==
    <<Call("execute", name, ok)>>
    \o (IF ok THEN <<>> ELSE <<Call("rollback", "", TRUE)>>)

ExecuteAndFetch_Retrying(name, ok) ==
    IF ok THEN <<Call("execute", name, TRUE)>>
    ELSE <<Call("execute", name, FALSE), Call("execute", name, FALSE)>>

ExecuteAndFetch(name, ok) == <<Call("execute", name, ok)>>

\* one turn of  for query_name, query in queries.items()  (or the single
\* cur.execute(query) of a list-returning routine); the loop ends with
\* return results, which runs the finally clause
RunQuery ==
    /\ pc = "query"
    /\ LET name == queries(action_type)[qi]
           last == qi = Len(queries(action_type))
       IN  /\ \/ \E rows \in BoundedSeqs(HandlerRows(name),
                                         MaxRows - RowCount(results)) :
                   /\ calls' = calls \o ExecuteAndFetch(name, TRUE)
                   /\ results' = IF ReturnsList(action_type)
                                 THEN ListResult(rows)
                                 ELSE DictSet(results, name, rows)
                   /\ pc' = IF last THEN "finally" ELSE "query"
                   /\ qi' = IF last THEN qi ELSE qi + 1
                   /\ UNCHANGED <<exc, failed>>
              \/ /\ Cardinality(failed) < MaxFailures
                 /\ calls' = calls \o ExecuteAndFetch(name, FALSE)
                 /\ failed' = failed \cup {name}
                 /\ IF PerQueryTry(action_type)
                    THEN /\ results' = DictSet(results, name, <<>>)
                         /\ pc' = IF last THEN "finally" ELSE "query"
                         /\ qi' = IF last THEN qi ELSE qi + 1
                         /\ exc' = exc
                    ELSE /\ results' = results
                         /\ pc' = "finally"
                         /\ qi' = qi
                         /\ exc' = Wrapped(action_type, <<"<psycopg2 error>">>)
    /\ UNCHANGED <<event, environment, action_type, secret_name, conn,
                   formatted_output, response, db_opened, db_open>>

\* the finally clause, then either the routine's exception reaches
\* lambda_handler's except clause or its value is assigned to results
Finally_Mutant ==
    /\ pc = "finally"
    /\ IF exc # <<>>
       THEN /\ conn' = FinallyClose(conn, exc)
            /\ response' = HandlerExcept(exc)
            /\ pc' = "done"
       ELSE /\ conn' = conn
            /\ response' = response
            /\ pc' = "format"
    /\ calls' = calls \o When(conn' # conn, <<Call("close", "", TRUE)>>)
    /\ db_open' = IF conn' # conn THEN db_open - 1 ELSE db_open
    /\ UNCHANGED <<event, environment, action_type, secret_name, qi, exc,
                   failed, results, formatted_output, db_opened>>

Finally ==
    /\ pc = "finally"
    /\ conn' = FinallyClose(conn, exc)
    /\ calls' = calls \o When(conn' # conn, <<Call("close", "", TRUE)>>)
    /\ db_open' = IF conn' # conn THEN db_open - 1 ELSE db_open
    /\ IF exc # <<>>
       THEN /\ response' = HandlerExcept(exc)
            /\ pc' = "done"
       ELSE /\ response' = response
            /\ pc' = "format"
    /\ UNCHANGED <<event, environment, action_type, secret_name, qi, exc,
                   failed, results, formatted_output, db_opened>>

\* formatted_output = format_results_for_...(results) and the return
\* a formatter that consumes the rows it prints
Format_Mutant ==
    /\ pc = "format"
    /\ LET out == Formatter(action_type, results) IN
       /\ calls' = Append(calls, Call("format", action_type, out.ok))
       /\ IF out.ok
          THEN /\ formatted_output' = out.lines
               /\ response' = ResponseBody(out.lines)
          ELSE /\ formatted_output' = formatted_output
               /\ response' = HandlerExcept(<<"<TypeError>">>)
    /\ results' = IF ReturnsList(action_type) THEN ListResult(<<>>)
                  ELSE [results EXCEPT
                           !.items = [j \in 1..Len(@) |-> <<@[j][1], <<>>>>]]
    /\ pc' = "done"
    /\ UNCHANGED <<event, environment, action_type, secret_name, conn, qi,
                   exc, failed, db_opened, db_open>>

Format ==
    /\ pc = "format"
    /\ LET out == Formatter(action_type, results) IN
       /\ calls' = Append(calls, Call("format", action_type, out.ok))
       /\ IF out.ok
          THEN /\ formatted_output' = out.lines
               /\ response' = ResponseBody(out.lines)
          ELSE /\ formatted_output' = formatted_output
               /\ response' = HandlerExcept(<<"<TypeError>">>)
    /\ pc' = "done"
    /\ UNCHANGED <<event, environment, action_type, secret_name, conn, qi,
                   exc, failed, results, db_opened, db_open>>

Next ==
    \/ ParseEvent
    \/ get_env_secret
    \/ Dispatch
    \/ connect_to_db
    \/ Setup
    \/ RunQuery
    \/ Finally
    \/ Format

Spec == Init /\ [][Next]_vars

(***************************************************************************)
(* The formatters on their own: lambda_handler at the point where an       *)
(* execute_* routine has returned, for every value the routine can return  *)
(* (all names of its queries dict in order, or a list) over the rows of    *)
(* Rows; the calls made before that point are left out of the trace.       *)
(***************************************************************************)
\* every row some query of the action can return
FmtRows(a) == UNION {Rows(queries(a)[j]) : j \in 1..Len(queries(a))}

\* the value the routine returns when its queries, in order, fetched the
\* rows rws, row i by the query at position pos[i]
FmtResults(a, pos, rws) ==
    LET RECURSIVE Fetched(_, _)
        Fetched(j, i) ==
            IF i > Len(rws) THEN <<>>
            ELSE (IF pos[i] = j THEN <<rws[i]>> ELSE <<>>) \o Fetched(j, i + 1)
    IN  IF ReturnsList(a) THEN ListResult(Fetched(1, 1))
        ELSE [type |-> "dict", list |-> <<>>,
              items |-> [j \in 1..Len(queries(a)) |->
                            <<queries(a)[j], Fetched(j, 1)>>]]

InitFmt ==
    /\ action_type \in RegisteredActions
    /\ \E k \in 0..MaxFmtRows :
         \E pos \in [1..k -> 1..Len(queries(action_type))] :
            /\ \A i \in 1..(k - 1) : pos[i] <= pos[i + 1]
            /\ \E rws \in [1..k -> FmtRows(action_type)] :
                  /\ \A i \in 1..k :
                        rws[i] \in Rows(queries(action_type)[pos[i]])
                  /\ results = FmtResults(action_type, pos, rws)
    /\ event = [nested |-> FALSE, arguments |-> NoArgs,
                top |-> [environment |-> "dev", action_type |-> action_type]]
    /\ pc = "format"
    /\ environment = "dev"
    /\ secret_name = "secret-dev"
    /\ conn = "closed"
    /\ qi = Len(queries(action_type))
    /\ exc = <<>>
    /\ calls = <<>>
    /\ failed = {}
    /\ formatted_output = <<>>
    /\ response = NoResponse
    /\ db_opened = 1
    /\ db_open = 0

NextFmt == Format

\* the formatter applied a second time to the results the first call left
FormatAgain ==
    /\ pc = "done"
    /\ calls # <<>>
    /\ calls[Len(calls)].op = "format"
    /\ LET out == Formatter(action_type, results) IN
       /\ calls' = Append(calls, Call("format", action_type, out.ok))
       /\ IF out.ok
          THEN /\ formatted_output' = out.lines
               /\ response' = ResponseBody(out.lines)
          ELSE /\ formatted_output' = formatted_output
               /\ response' = HandlerExcept(<<"<TypeError>">>)
    /\ pc' = "again"
    /\ UNCHANGED <<event, environment, action_type, secret_name, conn, qi,
                   exc, failed, results, db_opened, db_open>>

NextFmtTwice ==
    \/ Format
    \/ FormatAgain

SpecFmtTwice == InitFmt /\ [][NextFmtTwice]_vars

SpecFmt == InitFmt /\ [][NextFmt]_vars

(***************************************************************************)
(* Properties of the dispatcher.                                           *)
(***************************************************************************)

\* C1: a request whose action_type is not one of the eleven registered
\* values never has a database connection opened for it (psycopg2.connect
\* is never called), and it ends with the error response
\* (functionResponse.content).
C1_UnregisteredActionOpensNoConnection ==
    LET args == IF event.nested THEN event.arguments ELSE event.top IN
    args.action_type \notin Range(AvailableActionsText) =>
        /\ conn = "none"
        /\ db_opened = 0
        /\ \A i \in 1..Len(calls) : calls[i].op # "psycopg2.connect"
        /\ pc = "done" => response.kind = "content"

\* C1 witness: the request {dev, bogus} went through environment resolution
\* and was answered with the unknown-action error.
C1_Witness ==
    /\ pc = "done"
    /\ action_type = "bogus"
    /\ secret_name = "secret-dev"
    /\ response.kind = "content"
    /\ response.content[2] = "bogus"

\* C2: once lambda_handler has returned, no connection opened during the
\* request is still open, whatever the exit path.
C2_NoConnectionLeftOpen ==
    pc = "done" => (db_open = 0 /\ conn # "open")

\* C2 witness: a request that opened a connection ended in the error
\* response after a statement raised, with the connection closed.
C2_Witness ==
    /\ pc = "done"
    /\ db_opened = 1
    /\ conn = "closed"
    /\ exc # <<>>
    /\ response.kind = "content"

\* C2 second exit path, the formatter raising after the connection was
\* closed, is reached as well.
C2_WitnessFormatterRaised ==
    /\ pc = "done"
    /\ conn = "closed"
    /\ \E i \in 1..Len(calls) : calls[i].op = "format" /\ ~calls[i].ok

\* C3: in every action whose query set has several named queries, a named
\* query that fails is recorded as an empty list under its name, the other
\* queries of the set are still executed, and the request returns a report
\* (responseBody) and not an error.
C3_FailedQueryRecordedAndReportReturned ==
    \A n \in failed :
        Len(queries(action_type)) > 1 =>
            /\ \E i \in 1..Len(results.items) : results.items[i] = <<n, <<>>>>
            /\ pc = "done" =>
                 /\ \A m \in Range(queries(action_type)) :
                        \E i \in 1..Len(calls) :
                            calls[i].op = "execute" /\ calls[i].arg = m
                 /\ Formatter(action_type, results).ok =>
                        response.kind = "responseBody"

\* C4: when every named query of the action succeeded, the report has a
\* section for each query name the execute routine wrote, no section for
\* any other key, and the sections are in the insertion order of the set.
C4_SectionsAreTheQuerySetInOrder ==
    (pc = "done" /\ response.kind = "responseBody" /\ failed = {}) =>
        LET body == response.body
            names == queries(action_type)
            pos(k) == CHOOSE i \in 1..Len(names) : names[i] = k
        IN  /\ \A i \in 1..Len(body) :
                   body[i].s = "" \/ body[i].s \in Range(names)
            /\ \A n \in Range(names) :
                   \E i \in 1..Len(body) : body[i].s = n
            /\ \A i, j \in 1..Len(body) :
                   (i < j /\ body[i].s \in Range(names)
                          /\ body[j].s \in Range(names)) =>
                       pos(body[i].s) <= pos(body[j].s)

\* C5: a request whose action_type is unknown is rejected before any I/O:
\* no call to the parameter store, the secret store or the database is made
\* for it.
C5_UnknownActionRejectedBeforeIO ==
    LET args == IF event.nested THEN event.arguments ELSE event.top IN
    args.action_type \notin Range(AvailableActionsText) =>
        \A i \in 1..Len(calls) :
            calls[i].op \notin {"get_parameter", "get_secret_value",
                                "psycopg2.connect", "execute"}

\* C6: a request in which environment or action_type is absent or empty
\* returns the missing-parameters error and makes no external call at all.
C6_MissingParametersNoCalls ==
    LET args == IF event.nested THEN event.arguments ELSE event.top IN
    (args.environment \in {NONE, ""} \/ args.action_type \in {NONE, ""}) =>
        /\ calls = <<>>
        /\ db_opened = 0
        /\ pc = "done" =>
             response = [kind |-> "content", body |-> <<>>,
                         content |-> <<"Error: Missing required parameters. Need 'environment' and 'action_type'.">>]

\* C6 witness: a request with an environment and no action_type, and one with
\* an action_type and an empty environment, were answered.
C6_Witness ==
    /\ pc = "done"
    /\ response.kind = "content"
    /\ \/ environment = "dev" /\ action_type = NONE
       \/ environment = "" /\ action_type = "system_health"

\* C7 as stated: every request with a registered action_type whose
\* environment and secret resolve has exactly one database connection
\* opened for it, and never two connections open at the same time.
C7_ExactlyOneConnectionOpened ==
    /\ db_open <= 1
    /\ (/\ pc = "done"
        /\ action_type \in Range(AvailableActionsText)
        /\ \E i \in 1..Len(calls) :
               calls[i].op = "get_secret_value" /\ calls[i].ok) =>
           db_opened = 1

\* C7 as amended: for such a request psycopg2.connect is called exactly
\* once; the call opens one connection when it returns and none when it
\* raises; and never are two connections open at the same time.
C7_OneConnectAttemptAtMostOneConnection ==
    /\ db_open <= 1
    /\ db_opened <= 1
    /\ (/\ pc = "done"
        /\ action_type \in Range(AvailableActionsText)
        /\ \E i \in 1..Len(calls) :
               calls[i].op = "get_secret_value" /\ calls[i].ok) =>
           /\ Cardinality({i \in 1..Len(calls) :
                              calls[i].op = "psycopg2.connect"}) = 1
           /\ \A i \in 1..Len(calls) :
                  calls[i].op = "psycopg2.connect" =>
                      db_opened = (IF calls[i].ok THEN 1 ELSE 0)

\* C7 witness: a request with a registered action whose secret resolved has
\* returned, once after its connection attempt failed and once after the
\* connection was opened, used and closed.
C7_Witness ==
    /\ pc = "done"
    /\ action_type = "io_analysis"
    /\ db_opened = 1
    /\ db_open = 0
    /\ response.kind = "responseBody"

C7_WitnessConnectFailed ==
    /\ pc = "done"
    /\ action_type = "io_analysis"
    /\ db_opened = 0
    /\ \E i \in 1..Len(calls) :
           calls[i].op = "psycopg2.connect" /\ ~calls[i].ok

\* C8: when the setup statement (or its commit) fails, no named query of the
\* action is executed, the connection is closed and the request returns the
\* error response; and in each of the seven actions that issue the setup
\* statement, a named query is executed only after the setup statement was
\* executed and committed.
C8_SetupFailureAbortsAction ==
    LET isNamed(c) == c.op = "execute" /\ c.arg # SetupStatement
        setupFailed ==
            \E i \in 1..Len(calls) :
                /\ ~calls[i].ok
                /\ \/ calls[i].op = "commit"
                   \/ calls[i].op = "execute" /\ calls[i].arg = SetupStatement
    IN  /\ setupFailed =>
               /\ \A i \in 1..Len(calls) : ~isNamed(calls[i])
               /\ pc \in {"finally", "done"}
               /\ pc = "done" =>
                    (db_open = 0 /\ conn = "closed"
                       /\ response.kind = "content")
        /\ action_type \in {"slow_query", "connection_management_issues",
                            "index_analysis", "autovacuum_analysis",
                            "io_analysis", "replication_analysis",
                            "system_health"} =>
               \A j \in 1..Len(calls) :
                   isNamed(calls[j]) =>
                       \E i, k \in 1..Len(calls) :
                           /\ i < k /\ k < j
                           /\ calls[i].op = "execute"
                           /\ calls[i].arg = SetupStatement /\ calls[i].ok
                           /\ calls[k].op = "commit" /\ calls[k].ok

\* C8 witness: the commit of the setup statement failed and the request
\* ended with the connection closed.
C8_Witness ==
    /\ pc = "done"
    /\ conn = "closed"
    /\ response.kind = "content"
    /\ \E i \in 1..Len(calls) : calls[i].op = "commit" /\ ~calls[i].ok

\* C9: for every action and every query name of its set, a zero-row result
\* yields exactly one fallback sentence in that query's section of the
\* report, and formatting zero-row results does not raise.
C9_ZeroRowsGiveOneFallbackSentence ==
    (pc = "done" /\ \E i \in 1..Len(calls) : calls[i].op = "format") =>
        LET names == Range(queries(action_type))
            rowsOf(n) == IF ReturnsList(action_type) THEN results.list
                         ELSE Get(results, n)
            body == response.body
        IN  /\ (\A n \in names : rowsOf(n) = <<>>) =>
                   response.kind = "responseBody"
            /\ response.kind = "responseBody" =>
                   \A n \in names :
                       rowsOf(n) = <<>> =>
                           Cardinality({i \in 1..Len(body) :
                                           /\ body[i].k = "fallback"
                                           /\ body[i].s = n}) = 1

\* C10: a row whose ratio denominator is zero is rendered with a hit-ratio
\* field showing 0%: the line after the row's item line is the ratio field
\* with value 0.
C10_ZeroDenominatorShowsZeroPercent ==
    (pc = "done" /\ response.kind = "responseBody") =>
        LET body == response.body
            showsZero(key, r) ==
                \E i \in 1..(Len(body) - 1) :
                    /\ body[i].k = "item" /\ body[i].s = key /\ body[i].v = r
                    /\ body[i + 1].k = "field" /\ body[i + 1].s = key
                    /\ body[i + 1].v = 0
            bu == Get(results, "buffer_usage")
            io == Get(results, "io_statistics")
            ds == Get(results, "database_statistics")
        IN  /\ \A r \in 1..Len(bu) :
                   bu[r].heap_blks_read + bu[r].heap_blks_hit = 0 =>
                       showsZero("buffer_usage", r)
            /\ \A r \in 1..Len(io) :
                   io[r].heap_blks_read + io[r].idx_blks_read
                     + io[r].heap_blks_hit + io[r].idx_blks_hit = 0 =>
                       showsZero("io_statistics", r)
            /\ \A r \in 1..Len(ds) :
                   ds[r].blks_read + ds[r].blks_hit = 0 =>
                       showsZero("database_statistics", r)

(***************************************************************************)
(* Properties of the formatters (checked under SpecFmt).                   *)
(***************************************************************************)

\* C11: in a system_health report every database_statistics row's block
\* holds the deadlock warning iff deadlocks > 0, the conflict warning iff
\* conflicts > 0 and the temporary-file warning iff temp_files > 1000.
C11_StatisticsWarningsIffThresholds ==
    (pc = "done" /\ action_type = "system_health"
                 /\ response.kind = "responseBody") =>
    LET rows == Get(results, "database_statistics")
        rep == response.body
        InBlock(idx, text) ==
            \E p0 \in 1..Len(rep) : \E p \in (p0 + 1)..Len(rep) :
               /\ rep[p0] = L("item", "database_statistics", "#", idx)
               /\ rep[p] = L("warning", "database_statistics", text, 0)
               /\ \A m \in (p0 + 1)..(p - 1) :
                     rep[m].k \notin {"item", "header", "title"}
    IN  \A idx \in 1..Len(rows) :
           /\ InBlock(idx, "Warning: Deadlocks detected!")
                 <=> rows[idx].deadlocks > 0
           /\ InBlock(idx, "Warning: Conflicts detected!")
                 <=> rows[idx].conflicts > 0
           /\ InBlock(idx, "Warning: High number of temporary files created!")
                 <=> rows[idx].temp_files > 1000

\* a report whose row has deadlocks = 2, no conflict and 1000 temporary files
C11_Witness ==
    /\ pc = "done" /\ action_type = "system_health"
    /\ response.kind = "responseBody"
    /\ \E idx \in 1..Len(Get(results, "database_statistics")) :
          LET row == Get(results, "database_statistics")[idx] IN
          row.deadlocks = 2 /\ row.conflicts = 0 /\ row.temp_files = 1000

(***************************************************************************)
(* Properties of the dispatcher, continued (checked under Spec).           *)
(***************************************************************************)

\* C12: every request whose action_type is a non-empty unregistered value X
\* ends with the content "Error: Unknown action_type 'X'. Available
\* actions: ..." and without a database call, whatever its environment and
\* whatever the outcome of resolving it.
C12_UnknownActionAlwaysAnswered ==
    LET X == ArgsOf(event).action_type IN
    (pc = "done" /\ ~Falsy(X) /\ X \notin RegisteredActions) =>
        /\ response = UnknownAction(X)
        /\ \A i \in 1..Len(calls) :
              calls[i].op \notin {"psycopg2.connect", "execute"}

\* C13: lambda_handler never raises: an invocation answers only by
\* returning, and what it returns holds exactly one of responseBody (the report) and
\* content (a non-empty message).  It holds responseBody only when the
\* action_type is registered and every call of environment resolution, of
\* connecting, of every aborting database step (setup statement, commit, a
\* query outside a per-query try) and of formatting succeeded.
C13_AlwaysOneOfTwoShapes ==
    /\ pc # "done" => response = NoResponse
    /\ pc = "done" =>
          \/ /\ response.kind = "content"
             /\ response.content # <<>>
             /\ response.body = <<>>
          \/ /\ response.kind = "responseBody"
             /\ response.content = <<>>
             /\ response.body = formatted_output
             /\ ArgsOf(event).action_type \in RegisteredActions
             /\ ArgsOf(event).environment \in {"dev", "prod"}
             /\ \E i \in 1..Len(calls) :
                   calls[i] = Call("get_parameter",
                                   ParameterName(environment), TRUE)
             /\ \E i \in 1..Len(calls) :
                   calls[i] = Call("psycopg2.connect", secret_name, TRUE)
             /\ calls[Len(calls)] = Call("format", action_type, TRUE)
             /\ \A i \in 1..Len(calls) :
                   \/ calls[i].ok
                   \/ /\ calls[i].op = "execute"
                      /\ calls[i].arg # SetupStatement
                      /\ PerQueryTry(action_type)

\* a report returned although one query inside a per-query try failed
C13_Witness ==
    /\ pc = "done"
    /\ response.kind = "responseBody"
    /\ failed # {}

\* the error shape returned after the formatter raised
C13_WitnessFormatterRaised ==
    /\ pc = "done"
    /\ response.kind = "content"
    /\ Len(calls) > 0
    /\ calls[Len(calls)] = Call("format", action_type, FALSE)

\* C14 as stated: every request whose environment is a value other than dev
\* and prod ends with the "Unknown environment" error content, without a
\* parameter-store lookup, a secret fetch or a database connection.
C14_UnknownEnvironmentAlwaysReported ==
    LET env == ArgsOf(event).environment IN
    (pc = "done" /\ env \notin {NONE, "dev", "prod"}) =>
        /\ response = HandlerExcept(<<"Unknown environment: ", env>>)
        /\ \A i \in 1..Len(calls) :
              calls[i].op \notin {"get_parameter", "get_secret_value",
                                  "psycopg2.connect"}

\* C14, amended: a request that passes the required-parameter check
\* (environment and action_type both present and non-empty) and whose
\* environment is neither dev nor prod ends with the "Unknown environment"
\* error content, without a parameter-store lookup, a secret fetch or a
\* database connection; with dev the one lookup made is of /AuroraOps/dev
\* and with prod of /AuroraOps/prod.
C14_UnknownEnvironmentAfterValidation ==
    LET env == ArgsOf(event).environment
        act == ArgsOf(event).action_type
        lookups == {i \in 1..Len(calls) : calls[i].op = "get_parameter"}
    IN  (pc \notin {"start", "get_env_secret"} /\ ~Falsy(env) /\ ~Falsy(act)) =>
           IF env \in {"dev", "prod"}
           THEN /\ Cardinality(lookups) = 1
                /\ \A i \in lookups :
                      /\ env = "dev" => calls[i].arg = "/AuroraOps/dev"
                      /\ env = "prod" => calls[i].arg = "/AuroraOps/prod"
           ELSE /\ pc = "done"
                /\ response = HandlerExcept(<<"Unknown environment: ", env>>)
                /\ lookups = {}
                /\ db_opened = 0
                /\ \A i \in 1..Len(calls) :
                      calls[i].op \notin {"get_secret_value",
                                          "psycopg2.connect", "execute"}

\* environment staging with a registered action_type: rejected by
\* get_env_secret
C14_Witness ==
    /\ pc = "done"
    /\ ArgsOf(event).environment = "staging"
    /\ ArgsOf(event).action_type = "system_health"
    /\ response = HandlerExcept(<<"Unknown environment: ", "staging">>)

\* environment dev: its own reference was looked up
C14_WitnessDev ==
    /\ ArgsOf(event).environment = "dev"
    /\ \E i \in 1..Len(calls) :
          calls[i] = Call("get_parameter", "/AuroraOps/dev", TRUE)

\* C15: two requests that carry the same environment and action_type, one
\* flat and one under the key 'arguments' (whatever stands beside that key
\* at top level), are handled alike: the step that reads the event leaves
\* the handler in the state it would have left it in for the other request,
\* so the response and the external calls that follow are the same.  No
\* later step reads the event.
C15_FlatAndNestedHandledAlike ==
    [][pc = "start" =>
          \A e2 \in Events :
             LET Request(e) == IF e.nested THEN e.arguments ELSE e.top IN
             Request(e2) = Request(event) =>
                /\ environment' = ArgsOf(e2).environment
                /\ action_type' = ArgsOf(e2).action_type
                /\ environment' = Request(event).environment
                /\ action_type' = Request(event).action_type
                /\ IF IsMissing(ArgsOf(e2).environment, ArgsOf(e2).action_type)
                   THEN pc' = "done" /\ response' = MissingParameters
                   ELSE pc' = "get_env_secret" /\ response' = NoResponse
                /\ calls' = <<>>
                /\ UNCHANGED <<secret_name, conn, qi, exc, failed, results,
                               formatted_output, db_opened, db_open>>]_vars

\* a nested request beside other top-level values, read from 'arguments'
C15_Witness ==
    /\ event.nested
    /\ event.top = [environment |-> "prod", action_type |-> "system_health"]
    /\ event.arguments = [environment |-> "dev", action_type |-> "slow_query"]
    /\ environment = "dev"
    /\ action_type = "slow_query"
    /\ pc = "done"
    /\ response.kind = "responseBody"

\* C16: the dispatcher recognises exactly eleven action_type values; for
\* each of them the first diagnostic query executed is the first query of
\* that action's own execute routine and the report returned opens with the
\* first line of that action's own formatter; every other string that
\* reaches the dispatcher gets the unknown-action content and neither
\* routine nor formatter runs.
C16_ElevenActionsEachItsOwnRoutines ==
    LET Eleven == {"slow_query", "connection_management_issues",
                   "index_analysis", "autovacuum_analysis", "io_analysis",
                   "replication_analysis", "system_health", "vacuum_progress",
                   "xid_analysis", "bloat_analysis",
                   "long_running_transactions"}
        X == ArgsOf(event).action_type
        FirstQuery ==
            [a \in Eleven |->
                CASE a = "slow_query" -> "active_slow_queries"
                  [] a = "connection_management_issues" -> "current_connections"
                  [] a = "index_analysis" -> "unused_indexes"
                  [] a = "autovacuum_analysis" -> "current_vacuum_progress"
                  [] a = "io_analysis" -> "buffer_usage"
                  [] a = "replication_analysis" -> "aurora_replica_status"
                  [] a = "system_health" -> "database_statistics"
                  [] a = "vacuum_progress" -> "vacuum_progress.query"
                  [] a = "xid_analysis" -> "oldest_xid_all_databases"
                  [] a = "bloat_analysis" -> "bloat_analysis.query"
                  [] a = "long_running_transactions" ->
                       "long_running_transactions.query"]
        FirstLines ==
            [a \in Eleven |->
                CASE a = "slow_query" ->
                       {"Database Performance Analysis Report"}
                  [] a = "connection_management_issues" ->
                       {"Database Connection Management Analysis Report"}
                  [] a = "index_analysis" -> {"Database Index Analysis Report"}
                  [] a = "autovacuum_analysis" ->
                       {"Database Autovacuum Analysis Report"}
                  [] a = "io_analysis" -> {"Database I/O Analysis Report"}
                  [] a = "replication_analysis" ->
                       {"Database Replication Analysis Report"}
                  [] a = "system_health" -> {"Database System Health Report"}
                  [] a = "vacuum_progress" ->
                       {"=== CURRENT VACUUM PROGRESS ===",
                        "No active vacuum operations found."}
                  [] a = "xid_analysis" -> {"=== XID WRAPAROUND ANALYSIS ==="}
                  [] a = "bloat_analysis" ->
                       {"=== TABLE BLOAT ANALYSIS ===",
                        "No significant table bloat found."}
                  [] a = "long_running_transactions" ->
                       {"=== LONG-RUNNING TRANSACTIONS ===",
                        "No long-running transactions found."}]
        diagnostic == SelectSeq(calls, LAMBDA c : c.op = "execute"
                                               /\ c.arg # SetupStatement)
        ran == \E i \in 1..Len(calls) :
                  calls[i].op \in {"get_secret_value", "psycopg2.connect",
                                   "execute", "format"}
    IN  /\ RegisteredActions = Eleven
        /\ X \in Eleven =>
              /\ diagnostic # <<>> => diagnostic[1].arg = FirstQuery[X]
              /\ (pc = "done" /\ response.kind = "responseBody") =>
                    /\ diagnostic # <<>>
                    /\ response.body[1].t \in FirstLines[X]
                    /\ calls[Len(calls)] = Call("format", X, TRUE)
        /\ X \notin Eleven =>
              /\ ~ran
              /\ (pc = "done" /\ secret_name # NONE) =>
                    response = UnknownAction(X)

\* an io_analysis request answered with the I/O report
C16_Witness ==
    /\ pc = "done"
    /\ ArgsOf(event).action_type = "io_analysis"
    /\ response.kind = "responseBody"
    /\ response.body[1].t = "Database I/O Analysis Report"

\* a request for another string, answered by the unknown-action branch
C16_WitnessOtherString ==
    /\ pc = "done"
    /\ ArgsOf(event).action_type = "bogus"
    /\ response = UnknownAction("bogus")

(***************************************************************************)
(* The free-text tools.  lambda_target_config registers, on the Lambda     *)
(* named by LAMBDA_ARN, the tools explain_query and execute_query, whose   *)
(* requests carry a query string beside environment and action_type.  The  *)
(* handler behind that Lambda is not among the sources (lambda_handler     *)
(* above has no branch for these names and never reads 'query'); its step  *)
(* is written from the specification's contract: resolve the environment,  *)
(* open one connection, pass the caller's SQL to the database unmodified,   *)
(* release the connection.                                                 *)
(***************************************************************************)
FreeTextActions == {"explain_query", "execute_query"}

\* values of the schema's  "query": {"type": "string"}
QueryTexts ==
    {"SELECT 1", "select * from orders where id = 7 ",
     "SELECT 1; DROP TABLE orders; --", "EXPLAIN SELECT 1"}

QueryArgs ==
    [environment : {"dev", "prod"}, action_type : FreeTextActions,
     query : QueryTexts]

QueryEvents ==
    {[nested |-> FALSE, top |-> t, arguments |-> NoArgs] : t \in QueryArgs}
    \cup {[nested |-> TRUE, top |-> NoArgs, arguments |-> n] : n \in QueryArgs}

\* the statement handed to cursor.execute for the caller's query text
StatementFor_Mutant(a, q) ==
    IF a = "explain_query" THEN "EXPLAIN SELECT 1" ELSE q

StatementFor(a, q) == q

InitQuery ==
    /\ event \in QueryEvents
    /\ pc = "start"
    /\ environment = NONE
    /\ action_type = NONE
    /\ secret_name = NONE
    /\ conn = "none"
    /\ qi = 0
    /\ exc = <<>>
    /\ calls = <<>>
    /\ failed = {}
    /\ results = EmptyDict
    /\ formatted_output = <<>>
    /\ response = NoResponse
    /\ db_opened = 0
    /\ db_open = 0

\* connect, execute the statement, release, respond
FreeTextQuery ==
    /\ pc = "dispatch"
    /\ action_type \in FreeTextActions
    /\ \E outcome \in {"no secret", "no connection", "execute failed",
                       "executed"} :
         LET statement == StatementFor(action_type, ArgsOf(event).query)
             connected == outcome \in {"execute failed", "executed"}
         IN  /\ calls' = calls
                    \o <<Call("boto3.client", "secretsmanager", TRUE),
                         Call("get_secret_value", secret_name,
                              outcome # "no secret")>>
                    \o When(outcome # "no secret",
                            <<Call("psycopg2.connect", secret_name, connected)>>)
                    \o When(connected,
                            <<Call("execute", statement, outcome = "executed"),
                              Call("close", "", TRUE)>>)
             /\ db_opened' = db_opened + (IF connected THEN 1 ELSE 0)
             /\ conn' = IF connected THEN "closed" ELSE conn
             /\ results' = IF outcome = "executed"
                           THEN ListResult(<<PlainRow>>) ELSE results
             /\ formatted_output' =
                    IF outcome = "executed"
                    THEN <<L("item", action_type, "#", 1)>>
                    ELSE formatted_output
             /\ response' = IF outcome = "executed"
                            THEN ResponseBody(formatted_output')
                            ELSE Content(<<"Error: ", outcome>>)
    /\ pc' = "done"
    /\ UNCHANGED <<event, environment, action_type, secret_name, qi, exc,
                   failed, db_open>>

NextQuery ==
    \/ ParseEvent
    \/ get_env_secret
    \/ FreeTextQuery

SpecQuery == InitQuery /\ [][NextQuery]_vars

C18_WarningIffThresholdCrossed ==
    (pc = "done" /\ response.kind = "responseBody") =>
    LET rep == response.body
        Warned(key) ==
            \E p \in 1..Len(rep) : rep[p].k = "warning" /\ rep[p].s = key
        WarnedWith(key, text) ==
            \E p \in 1..Len(rep) : rep[p] = L("warning", key, text, 0)
        Some(key, Crossed(_)) ==
            \E i \in 1..Len(Get(results, key)) : Crossed(Get(results, key)[i])
    IN  /\ action_type = "system_health" =>
              /\ WarnedWith("database_statistics",
                            "Warning: Low cache hit ratio. Consider increasing shared_buffers.")
                    <=> Some("database_statistics",
                             LAMBDA r : /\ r.blks_read + r.blks_hit > 0
                                        /\ r.blks_hit * 100
                                             < 90 * (r.blks_read + r.blks_hit))
              /\ WarnedWith("database_statistics",
                            "Warning: High number of temporary files created!")
                    <=> Some("database_statistics",
                             LAMBDA r : r.temp_files > 1000)
        /\ action_type = "replication_analysis" =>
              (WarnedWith("aurora_replica_status",
                          "Warning: High replication lag detected!")
                  <=> Some("aurora_replica_status",
                           LAMBDA r : r.lag_seconds > 30))
        /\ action_type = "autovacuum_analysis" =>
              (Some("percent_towards_xid_wraparound",
                    LAMBDA r : r.percent_towards_wraparound > 75)
                  <=> \E p \in 1..Len(rep) : rep[p].k = "warning")
        /\ action_type = "xid_analysis" =>
              (Some("percent_towards_wraparound",
                    LAMBDA r : r.percent_towards_wraparound > 75)
                  <=> \E p \in 1..Len(rep) : rep[p].k = "warning")

\* C19: formatters are total: for every action type and every result whose
\* rows map the expected columns to any allowed scalar, null included, the
\* formatter returns a report and does not raise.
C19_FormattersTotalOverRows ==
    pc = "done" =>
        /\ calls[Len(calls)] = Call("format", action_type, TRUE)
        /\ response = ResponseBody(formatted_output)

(***************************************************************************)
(* Properties of the dispatcher, continued (checked under Spec).           *)
(***************************************************************************)

\* C20: when the environment's secret reference cannot be resolved, the
\* secret cannot be fetched, or the database connection cannot be
\* established, the request is aborted: no statement is executed, no report
\* is formatted, and the request ends with the error content.
C20_ResolutionOrConnectionFailureAborts ==
    LET env == ArgsOf(event).environment
        unresolved ==
            \/ \E i \in 1..Len(calls) :
                  calls[i].op = "get_parameter" /\ ~calls[i].ok
            \/ /\ pc \notin {"start", "get_env_secret"}
               /\ ~IsMissing(env, ArgsOf(event).action_type)
               /\ env \notin {"dev", "prod"}
        unfetched == \E i \in 1..Len(calls) :
                        calls[i].op = "get_secret_value" /\ ~calls[i].ok
        unconnected == \E i \in 1..Len(calls) :
                          calls[i].op = "psycopg2.connect" /\ ~calls[i].ok
    IN  (unresolved \/ unfetched \/ unconnected) =>
           /\ \A i \in 1..Len(calls) :
                 calls[i].op \notin {"execute", "commit", "format"}
           /\ results = EmptyDict
           /\ formatted_output = <<>>
           /\ db_opened = 0
           /\ pc \in {"finally", "done"}
           /\ pc = "done" => /\ response.kind = "content"
                             /\ response.content # <<>>

\* a request ended by a refused database connection
C20_Witness ==
    /\ pc = "done"
    /\ response.kind = "content"
    /\ \E i \in 1..Len(calls) :
          calls[i] = Call("psycopg2.connect", secret_name, FALSE)

\* a request ended by a secret that could not be fetched
C20_WitnessNoSecret ==
    /\ pc = "done"
    /\ response.kind = "content"
    /\ \E i \in 1..Len(calls) :
          calls[i] = Call("get_secret_value", secret_name, FALSE)

\* a request ended by a reference missing from the parameter store
C20_WitnessUnresolved ==
    /\ pc = "done"
    /\ response.kind = "content"
    /\ \E i \in 1..Len(calls) :
          calls[i] = Call("get_parameter", "/AuroraOps/prod", FALSE)

\* C21: in every successful request the steps occur in this order: the
\* secret reference is resolved, the secret is fetched, the connection is
\* opened, the action's queries are executed in the insertion order of its
\* query set, the connection is closed, the results are formatted, the
\* response is returned.  Formatting never starts while the connection is
\* open, and no statement is executed after the connection is closed.
C21_StepsInOrder ==
    LET At(op) == {i \in 1..Len(calls) : calls[i].op = op}
        Before(S, T) == \A i \in S : \A j \in T : i < j
        named == SelectSeq(calls, LAMBDA c : c.op = "execute"
                                          /\ c.arg # SetupStatement)
    IN  /\ Before(At("close"), At("format"))
        /\ Before(At("execute") \cup At("commit"), At("close"))
        /\ At("format") # {} => db_open = 0 /\ At("close") # {}
        /\ pc = "format" => conn = "closed"
        /\ (pc = "done" /\ response.kind = "responseBody") =>
              /\ Cardinality(At("get_parameter")) = 1
              /\ Cardinality(At("get_secret_value")) = 1
              /\ Cardinality(At("psycopg2.connect")) = 1
              /\ Cardinality(At("close")) = 1
              /\ Before(At("get_parameter"), At("get_secret_value"))
              /\ Before(At("get_secret_value"), At("psycopg2.connect"))
              /\ Before(At("psycopg2.connect"), At("execute"))
              /\ At("format") = {Len(calls)}
              /\ [i \in 1..Len(named) |-> named[i].arg] = queries(action_type)

\* a system_health report: three queries, then close, then format
C21_Witness ==
    /\ pc = "done"
    /\ action_type = "system_health"
    /\ response.kind = "responseBody"
    /\ Len(calls) >= 3
    /\ calls[Len(calls) - 1].op = "close"
    /\ calls[Len(calls) - 2] = Call("execute", "long_running_transactions", TRUE)

\* C22: the named queries of an action's set are executed one after another
\* on the single connection of the request and inside one transaction:
\* between the first and the last named query nothing but named queries is
\* issued (no commit, rollback, connect or close), and they all fall between
\* the one connect and the close.
C22_QueriesInOneTransaction ==
    LET Named(i) == calls[i].op = "execute" /\ calls[i].arg # SetupStatement
        named == {i \in 1..Len(calls) : Named(i)}
        connects == {i \in 1..Len(calls) : calls[i].op = "psycopg2.connect"}
    IN  /\ \A i \in named : \A j \in named : \A m \in i..j : Named(m)
        /\ named # {} =>
              /\ db_opened = 1
              /\ Cardinality(connects) = 1
              /\ \A c \in connects : \A i \in named : calls[c].ok /\ c < i

\* all ten queries of autovacuum_analysis were run, one of them failing
C22_Witness ==
    /\ action_type = "autovacuum_analysis"
    /\ pc = "done"
    /\ failed # {}
    /\ Len(SelectSeq(calls, LAMBDA c : c.op = "execute"
                                       /\ c.arg # SetupStatement)) = 10

\* C23: no retries: within one request the parameter-store lookup, the
\* secret fetch and the connection attempt are each made at most once, and
\* the setup statement and each named query are each executed at most once,
\* whether they succeed or fail.
C23_NoRetries ==
    LET Times(op) == Cardinality({i \in 1..Len(calls) : calls[i].op = op})
        Executed(text) ==
            Cardinality({i \in 1..Len(calls) :
                            calls[i].op = "execute" /\ calls[i].arg = text})
    IN  /\ Times("get_parameter") <= 1
        /\ Times("get_secret_value") <= 1
        /\ Times("psycopg2.connect") <= 1
        /\ \A i \in 1..Len(calls) :
              calls[i].op = "execute" => Executed(calls[i].arg) = 1
        /\ pc = "done" =>
              \A name \in failed : Executed(name) = 1

\* a replication_analysis request in which one named query failed: it was
\* run once and the loop went on
C23_Witness ==
    /\ pc = "done"
    /\ action_type = "replication_analysis"
    /\ Call("execute", "aurora_replica_status", FALSE) \in Range(calls)
    /\ Call("execute", "replication_connections", TRUE) \in Range(calls)

\* a refused connection, attempted once
C23_WitnessConnect ==
    /\ pc = "done"
    /\ Call("psycopg2.connect", secret_name, FALSE) \in Range(calls)

(***************************************************************************)
(* Two invocations of lambda_handler in one process.  The module has no    *)
(* module-level assignment: every name a request writes (environment,      *)
(* action_type, secret_name, conn, results, formatted_output) is a local   *)
(* of lambda_handler or of the routine it calls.  Here each variable holds *)
(* one value per request, db_opened counts the connections the database    *)
(* has handed out and db_open is the set of those still open.  A request   *)
(* is interleaved with the other at every access to the database.          *)
(***************************************************************************)
Requests == {1, 2}

ConcEvents ==
    {[nested |-> FALSE, arguments |-> NoArgs,
      top |-> [environment |-> e, action_type |-> a]] :
        e \in {"dev", "staging"},
        a \in {"system_health", "long_running_transactions", "bogus"}}

InitConc ==
    /\ event \in [Requests -> ConcEvents]
    /\ pc = [r \in Requests |-> "start"]
    /\ environment = [r \in Requests |-> NONE]
    /\ action_type = [r \in Requests |-> NONE]
    /\ secret_name = [r \in Requests |-> NONE]
    /\ conn = [r \in Requests |-> 0]
    /\ qi = [r \in Requests |-> 0]
    /\ exc = [r \in Requests |-> <<>>]
    /\ calls = [r \in Requests |-> <<>>]
    /\ failed = [r \in Requests |-> {}]
    /\ results = [r \in Requests |-> EmptyDict]
    /\ formatted_output = [r \in Requests |-> <<>>]
    /\ response = [r \in Requests |-> NoResponse]
    /\ db_opened = 0
    /\ db_open = {}

\* lines 1603-1678 up to the call of the routine: read the event, resolve
\* the environment, find the branch of action_type
ConcStart(r) ==
    /\ pc[r] = "start"
    /\ LET env == ArgsOf(event[r]).environment
           act == ArgsOf(event[r]).action_type
       IN  /\ environment' = [environment EXCEPT ![r] = env]
           /\ action_type' = [action_type EXCEPT ![r] = act]
           /\ IF IsMissing(env, act)
              THEN /\ response' = [response EXCEPT ![r] = MissingParameters]
                   /\ pc' = [pc EXCEPT ![r] = "done"]
                   /\ UNCHANGED <<secret_name, calls>>
              ELSE IF env \notin {"prod", "dev"}
              THEN /\ response' =
                        [response EXCEPT ![r] =
                            HandlerExcept(<<"Unknown environment: ", env>>)]
                   /\ pc' = [pc EXCEPT ![r] = "done"]
                   /\ calls' = [calls EXCEPT ![r] =
                                   Append(@, Call("boto3.client", "ssm", TRUE))]
                   /\ UNCHANGED secret_name
              ELSE \E found \in BOOLEAN :
                   /\ calls' = [calls EXCEPT ![r] =
                                   @ \o <<Call("boto3.client", "ssm", TRUE),
                                          Call("get_parameter",
                                               ParameterName(env), found)>>]
                   /\ secret_name' =
                        [secret_name EXCEPT ![r] =
                            IF found THEN ParameterValue(ParameterName(env))
                            ELSE @]
                   /\ response' =
                        [response EXCEPT ![r] =
                            IF ~found
                            THEN HandlerExcept(
                                   <<"Failed to get dev secret name from Parameter Store: ",
                                     "<ssm error>">>)
                            ELSE IF act \notin RegisteredActions
                            THEN UnknownAction(act) ELSE @]
                   /\ pc' = [pc EXCEPT ![r] =
                                IF found /\ act \in RegisteredActions
                                THEN "connect" ELSE "done"]
    /\ UNCHANGED <<event, conn, qi, exc, failed, results, formatted_output,
                   db_opened, db_open>>

\* conn = connect_to_db(secret_name): the database hands out a new
\* connection, which the request keeps in its local conn
ConcConnect(r) ==
    /\ pc[r] = "connect"
    /\ calls' = [calls EXCEPT ![r] =
                    @ \o <<Call("boto3.client", "secretsmanager", TRUE),
                           Call("get_secret_value", secret_name[r], TRUE),
                           Call("psycopg2.connect", secret_name[r], TRUE)>>]
    /\ db_opened' = db_opened + 1
    /\ db_open' = db_open \cup {db_opened'}
    /\ conn' = [conn EXCEPT ![r] = db_opened']
    /\ pc' = [pc EXCEPT ![r] = "query"]
    /\ UNCHANGED <<event, environment, action_type, secret_name, qi, exc,
                   failed, results, formatted_output, response>>

\* the statements of the routine, run on the request's connection: they
\* return rows while that connection is open at the database, or one of
\* them fails and the routine raises
ConcQueries(r) ==
    /\ pc[r] = "query"
    /\ LET a == action_type[r]
           rows == UNION {HandlerRows(queries(a)[j]) : j \in 1..Len(queries(a))}
       IN  \/ /\ conn[r] \in db_open
              /\ \E k \in 0..MaxConcRows :
                   \E pos \in [1..k -> 1..Len(queries(a))] :
                      /\ \A i \in 1..(k - 1) : pos[i] <= pos[i + 1]
                      /\ \E rws \in [1..k -> rows] :
                            /\ \A i \in 1..k :
                                  rws[i] \in HandlerRows(queries(a)[pos[i]])
                            /\ results' = [results EXCEPT ![r] =
                                              FmtResults(a, pos, rws)]
              /\ exc' = exc
           \/ /\ exc' = [exc EXCEPT ![r] =
                            Wrapped(a, <<"<psycopg2 error>">>)]
              /\ results' = results
    /\ calls' = [calls EXCEPT ![r] =
                    Append(@, Call("execute", queries(action_type[r])[1],
                                   exc'[r] = <<>>))]
    /\ pc' = [pc EXCEPT ![r] = "finally"]
    /\ UNCHANGED <<event, environment, action_type, secret_name, conn, qi,
                   failed, formatted_output, response, db_opened, db_open>>

\* the connection named by conn in  finally: if conn: conn.close()
ConnectionToClose_Shared(r, c, last) == last

ConnectionToClose(r, c, last) == c[r]

ConcClose(r) ==
    /\ pc[r] = "finally"
    /\ db_open' = db_open \ {ConnectionToClose(r, conn, db_opened)}
    /\ calls' = [calls EXCEPT ![r] = Append(@, Call("close", "", TRUE))]
    /\ IF exc[r] # <<>>
       THEN /\ response' = [response EXCEPT ![r] = HandlerExcept(exc[r])]
            /\ pc' = [pc EXCEPT ![r] = "done"]
       ELSE /\ response' = response
            /\ pc' = [pc EXCEPT ![r] = "format"]
    /\ UNCHANGED <<event, environment, action_type, secret_name, conn, qi,
                   exc, failed, results, formatted_output, db_opened>>

ConcFormat(r) ==
    /\ pc[r] = "format"
    /\ LET out == Formatter(action_type[r], results[r]) IN
       /\ calls' = [calls EXCEPT ![r] =
                       Append(@, Call("format", action_type[r], out.ok))]
       /\ formatted_output' =
              [formatted_output EXCEPT ![r] = IF out.ok THEN out.lines ELSE @]
       /\ response' = [response EXCEPT ![r] =
                          IF out.ok THEN ResponseBody(out.lines)
                          ELSE HandlerExcept(<<"<TypeError>">>)]
    /\ pc' = [pc EXCEPT ![r] = "done"]
    /\ UNCHANGED <<event, environment, action_type, secret_name, conn, qi,
                   exc, failed, results, db_opened, db_open>>

NextConc ==
    \E r \in Requests :
       \/ ConcStart(r)
       \/ ConcConnect(r)
       \/ ConcQueries(r)
       \/ ConcClose(r)
       \/ ConcFormat(r)

SpecConc == InitConc /\ [][NextConc]_vars

\* C24: two concurrent invocations are independent: the connections of the
\* two requests are distinct, the connections open at the database are
\* exactly those of the requests between their connect and their close (so
\* a request closes only its own and never loses its own to the other), and
\* each finished request holds the response that its own event and the
\* database's answers to it determine.
C24_ConcurrentRequestsIndependent ==
    LET Holding(r) == pc[r] \in {"query", "finally"}
        Alone(r) ==
            LET env == ArgsOf(event[r]).environment
                act == ArgsOf(event[r]).action_type
                out == Formatter(act, results[r])
            IN  IF Falsy(env) \/ Falsy(act) THEN MissingParameters
                ELSE IF env \notin {"dev", "prod"}
                THEN HandlerExcept(<<"Unknown environment: ", env>>)
                ELSE IF Call("get_parameter", ParameterName(env), FALSE)
                           \in Range(calls[r])
                THEN HandlerExcept(
                       <<"Failed to get dev secret name from Parameter Store: ",
                         "<ssm error>">>)
                ELSE IF act \notin RegisteredActions THEN UnknownAction(act)
                ELSE IF exc[r] # <<>> THEN HandlerExcept(exc[r])
                ELSE IF out.ok THEN ResponseBody(out.lines)
                ELSE HandlerExcept(<<"<TypeError>">>)
    IN  /\ \A r \in Requests : \A q \in Requests :
              (r # q /\ conn[r] # 0) => conn[r] # conn[q]
        /\ db_open = {conn[r] : r \in {q \in Requests : Holding(q)}}
        /\ \A r \in Requests :
              pc[r] = "done" => response[r] = Alone(r)

\* both requests finished with a report although their database accesses
\* were interleaved: the second connected before the first closed
C24_Witness ==
    /\ \A r \in Requests :
          pc[r] = "done" /\ response[r].kind = "responseBody"
    /\ conn[1] = 1 /\ conn[2] = 2
    /\ results[1] # results[2]

(***************************************************************************)
(* Properties of the formatters, continued (checked under SpecFmtTwice).   *)
(***************************************************************************)

C26_ReportIndependentOfRows ==
    (pc = "done" /\ response.kind = "responseBody") =>
        /\ action_type = "autovacuum_analysis" =>
              response.body =
                 <<L("title", "", "Database Autovacuum Analysis Report", 0),
                   L("header", "tables_needing_vacuum",
                     "=== TABLES NEEDING VACUUM ===", 0),
                   L("fallback", "tables_needing_vacuum",
                     "No tables with dead tuples found.", 0),
                   L("header", "autovacuum_activity",
                     "=== CURRENT AUTOVACUUM ACTIVITY ===", 0),
                   L("fallback", "autovacuum_activity",
                     "No active autovacuum processes found.", 0),
                   L("header", "table_bloat",
                     "=== TABLE BLOAT INFORMATION ===", 0),
                   L("fallback", "table_bloat",
                     "No table bloat information available.", 0),
                   L("header", "wraparound_status",
                     "=== TRANSACTION WRAPAROUND STATUS ===", 0),
                   L("fallback", "wraparound_status",
                     "No wraparound status information available.", 0)>>
        /\ action_type = "slow_query" =>
              /\ response.body[2] =
                    L("header", "slow_queries", "=== TOP 20 SLOW QUERIES ===", 0)
              /\ response.body[3] =
                    L("fallback", "slow_queries", "No slow queries found.", 0)

\* an autovacuum_analysis report for a database that returned rows
C26_Witness ==
    /\ pc = "done"
    /\ action_type = "autovacuum_analysis"
    /\ response.kind = "responseBody"
    /\ Get(results, "tables_eligible_for_vacuum") # <<>>
    /\ Get(results, "percent_towards_xid_wraparound") # <<>>

\* a slow_query report for a database that returned detailed slow queries
C26_WitnessSlowQuery ==
    /\ pc = "done"
    /\ action_type = "slow_query"
    /\ response.kind = "responseBody"
    /\ Get(results, "slow_queries_detailed") # <<>>

(***************************************************************************)
(* The handler against a database that, like PostgreSQL, rejects every     *)
(* statement of a transaction in which a statement has failed, until the   *)
(* transaction is rolled back (a commit of a failed transaction rolls it   *)
(* back as well).                                                          *)
(***************************************************************************)
InFailedTransaction(trace) ==
    \E i \in 1..Len(trace) :
       /\ trace[i].op = "execute" /\ ~trace[i].ok
       /\ \A j \in (i + 1)..Len(trace) :
             trace[j].op \notin {"rollback", "commit"}

RunQueryPg ==
    /\ pc = "query"
    /\ LET name == queries(action_type)[qi]
           last == qi = Len(queries(action_type))
       IN  /\ \/ /\ ~InFailedTransaction(calls)
                 /\ \E rows \in BoundedSeqs(HandlerRows(name),
                                            MaxRows - RowCount(results)) :
                      /\ calls' = calls \o ExecuteAndFetch(name, TRUE)
                      /\ results' = IF ReturnsList(action_type)
                                    THEN ListResult(rows)
                                    ELSE DictSet(results, name, rows)
                      /\ pc' = IF last THEN "finally" ELSE "query"
                      /\ qi' = IF last THEN qi ELSE qi + 1
                      /\ UNCHANGED <<exc, failed>>
              \/ /\ \/ InFailedTransaction(calls)
                    \/ Cardinality(failed) < MaxFailures
                 /\ calls' = calls \o ExecuteAndFetch(name, FALSE)
                 /\ failed' = failed \cup {name}
                 /\ IF PerQueryTry(action_type)
                    THEN /\ results' = DictSet(results, name, <<>>)
                         /\ pc' = IF last THEN "finally" ELSE "query"
                         /\ qi' = IF last THEN qi ELSE qi + 1
                         /\ exc' = exc
                    ELSE /\ results' = results
                         /\ pc' = "finally"
                         /\ qi' = qi
                         /\ exc' = Wrapped(action_type, <<"<psycopg2 error>">>)
    /\ UNCHANGED <<event, environment, action_type, secret_name, conn,
                   formatted_output, response, db_opened, db_open>>

NextPg ==
    \/ ParseEvent
    \/ get_env_secret
    \/ Dispatch
    \/ connect_to_db
    \/ Setup
    \/ RunQueryPg
    \/ Finally
    \/ Format

SpecPg == Init /\ [][NextPg]_vars

\* C27: in the actions with per-query recovery no rollback is issued after
\* a named query fails; so on a database that rejects statements in a
\* failed transaction, every named query after the first failure fails too
\* and is recorded with an empty result.
C27_FailureEmptiesTheRest ==
    LET named == SelectSeq(calls, LAMBDA c : c.op = "execute"
                                          /\ c.arg # SetupStatement)
    IN  (PerQueryTry(action_type) /\ failed # {}) =>
           /\ \A i \in 1..Len(calls) : calls[i].op # "rollback"
           /\ \A i \in 1..Len(named) : \A j \in i..Len(named) :
                 ~named[i].ok =>
                    /\ ~named[j].ok
                    /\ Get(results, named[j].arg) = <<>>
                    /\ named[j].arg \in failed

\* system_health whose first query failed: the two others failed as well,
\* and the request still returned a report
C27_Witness ==
    /\ pc = "done"
    /\ action_type = "system_health"
    /\ failed = {"database_statistics", "lock_contention",
                 "long_running_transactions"}
    /\ response.kind = "responseBody"

\* xid_analysis whose second query failed after the first returned a row
C27_WitnessXid ==
    /\ pc = "done"
    /\ action_type = "xid_analysis"
    /\ Get(results, "oldest_xid_all_databases") # <<>>
    /\ failed = {"oldest_xid_by_database", "percent_towards_wraparound",
                 "tables_with_oldest_relfrozenxid"}

(***************************************************************************)
(* Properties of the formatters, continued (checked under SpecFmt).        *)
(***************************************************************************)

\* C28: in the io_analysis report a buffer-usage table with
\* heap_blks_read + heap_blks_hit = 0 is rendered with a hit percentage of
\* 0 followed by the low-buffer-hit-ratio warning; in the detailed I/O
\* section a table with zero reads and hits gets neither a ratio line nor a
\* warning.
C28_ZeroBlocksWarnedInOneSectionOnly ==
    (pc = "done" /\ action_type = "io_analysis"
                 /\ response.kind = "responseBody") =>
    LET rep == response.body
        bu == Get(results, "buffer_usage")
        io == Get(results, "io_statistics")
        ItemAt(key, idx) ==
            CHOOSE p \in 1..Len(rep) : rep[p] = L("item", key, "#", idx)
    IN  /\ \A idx \in 1..Len(bu) :
              bu[idx].heap_blks_read + bu[idx].heap_blks_hit = 0 =>
                 LET p == ItemAt("buffer_usage", idx) IN
                 /\ Len(rep) >= p + 2
                 /\ rep[p + 1] = L("field", "buffer_usage",
                                   "Buffer Hit Percentage", 0)
                 /\ rep[p + 2] =
                       L("warning", "buffer_usage",
                         "Warning: Low buffer hit ratio. Consider increasing shared_buffers.",
                         0)
        /\ \A idx \in 1..Len(io) :
              (io[idx].heap_blks_read + io[idx].idx_blks_read
                 + io[idx].heap_blks_hit + io[idx].idx_blks_hit = 0) =>
                 LET p == ItemAt("io_statistics", idx) IN
                 /\ rep[p] = L("item", "io_statistics", "#", idx)
                 /\ p < Len(rep) => rep[p + 1].k \notin {"field", "warning"}

\* a report with a never-read table in the buffer-usage section
C28_Witness ==
    /\ pc = "done"
    /\ action_type = "io_analysis"
    /\ response.kind = "responseBody"
    /\ \E idx \in 1..Len(Get(results, "buffer_usage")) :
          LET row == Get(results, "buffer_usage")[idx] IN
          row.heap_blks_read = 0 /\ row.heap_blks_hit = 0

\* a report with a never-read table in the detailed I/O section
C28_WitnessIoStatistics ==
    /\ pc = "done"
    /\ action_type = "io_analysis"
    /\ response.kind = "responseBody"
    /\ \E idx \in 1..Len(Get(results, "io_statistics")) :
          LET row == Get(results, "io_statistics")[idx] IN
          /\ row.heap_blks_read = 0 /\ row.heap_blks_hit = 0
          /\ row.idx_blks_read = 0 /\ row.idx_blks_hit = 0

(***************************************************************************)
(* The chat agent of travel_agent.py: agent_invocation runs the graph      *)
(*     START -> chatbot,  chatbot -> tools_condition,  tools -> chatbot    *)
(* on the state {messages: [user message]} and wraps its outcome in a      *)
(* dict.  The variables are read as follows:                               *)
(*   event     the arguments [payload, session_id] of agent_invocation     *)
(*   pc        START, chatbot, tools, END, or returned                     *)
(*   results   state["messages"], each [role, content, tool_calls]         *)
(*   calls     the model and tool calls made, in order                     *)
(*   qi        the nodes run so far                                        *)
(*   response  the dict agent_invocation returns                           *)
(* and the others keep their initial values.  graph.invoke is library      *)
(* code: besides running the nodes it may raise (for instance when its     *)
(* step limit is exceeded), which aborts the run.                          *)
(***************************************************************************)
AIMessage(content, tool_calls) ==
    [role |-> "ai", content |-> content, tool_calls |-> tool_calls]
ToolMessage(content) ==
    [role |-> "tool", content |-> content, tool_calls |-> <<>>]
UserMessage(content) ==
    [role |-> "user", content |-> content, tool_calls |-> <<>>]

\* chatbot's except clause
ErrorResponse == AIMessage("I apologize, but I encountered an error: <e>", <<>>)

\* what the model may answer: text with or without a request for web_search
ModelAnswers ==
    {AIMessage("answer", <<>>), AIMessage("", <<"web_search">>),
     AIMessage("let me check", <<"web_search">>)}

\* what web_search returns: results, no result, or its own error text
SearchResults == {"1. title", "No results found.", "Search error: <e>"}

\* langgraph.prebuilt.tools_condition on the chatbot's message
tools_condition_Mutant(message) == "END"

tools_condition(message) ==
    IF message.tool_calls # <<>> THEN "tools" ELSE "END"

AgentArguments ==
    [payload : {"hi", "Broadway shows"},
     session_id : {"default_session", "task_session"}]

InitAgent ==
    /\ event \in AgentArguments
    /\ pc = "START"
    /\ results = <<>>
    /\ calls = <<>>
    /\ qi = 0
    /\ response = NoResponse
    /\ environment = NONE
    /\ action_type = NONE
    /\ secret_name = NONE
    /\ conn = "none"
    /\ exc = <<>>
    /\ failed = {}
    /\ formatted_output = <<>>
    /\ db_opened = 0
    /\ db_open = 0

\* tmp_msg = {"messages": [{"role": "user", "content": payload}]} and the
\* edge START -> chatbot
AgentStart ==
    /\ pc = "START"
    /\ results' = <<UserMessage(event.payload)>>
    /\ pc' = "chatbot"
    /\ UNCHANGED <<event, environment, action_type, secret_name, conn, qi,
                   exc, calls, failed, formatted_output, response, db_opened,
                   db_open>>

\* the chatbot node and the conditional edge that leaves it
chatbot_Mutant ==
    /\ pc = "chatbot"
    /\ \/ \E answer \in ModelAnswers :
            /\ answer.tool_calls # <<>> => qi + 2 <= MaxSteps
            /\ calls' = Append(calls, Call("llm.invoke", Len(results), TRUE))
            /\ results' = Append(results, answer)
            /\ pc' = tools_condition(answer)
            /\ response' = response
       \/ /\ calls' = Append(calls, Call("llm.invoke", Len(results), FALSE))
          /\ results' = results
          /\ pc' = "returned"
          /\ response' =
               [result |-> "I apologize, but I encountered an error processing your request. Please try again.",
                status |-> "error", error |-> "<e>",
                session_id |-> event.session_id]
    /\ qi' = qi + 1
    /\ UNCHANGED <<event, environment, action_type, secret_name, conn, exc,
                   failed, formatted_output, db_opened, db_open>>

chatbot ==
    /\ pc = "chatbot"
    /\ \/ \E answer \in ModelAnswers :
            /\ answer.tool_calls # <<>> => qi + 2 <= MaxSteps
            /\ calls' = Append(calls, Call("llm.invoke", Len(results), TRUE))
            /\ results' = Append(results, answer)
            /\ pc' = tools_condition(answer)
       \/ /\ calls' = Append(calls, Call("llm.invoke", Len(results), FALSE))
          /\ results' = Append(results, ErrorResponse)
          /\ pc' = tools_condition(ErrorResponse)
    /\ qi' = qi + 1
    /\ UNCHANGED <<event, environment, action_type, secret_name, conn, exc,
                   failed, formatted_output, response, db_opened, db_open>>

\* the tools node runs web_search for the request of the last message and
\* appends what it returned; the edge tools -> chatbot
ToolNode ==
    /\ pc = "tools"
    /\ \E found \in SearchResults :
         /\ calls' = Append(calls, Call("web_search", Len(results),
                                        found # "Search error: <e>"))
         /\ results' = Append(results, ToolMessage(found))
    /\ pc' = "chatbot"
    /\ qi' = qi + 1
    /\ UNCHANGED <<event, environment, action_type, secret_name, conn, exc,
                   failed, formatted_output, response, db_opened, db_open>>

\* graph.invoke raises in the middle of a run: agent_invocation's except
GraphRaises ==
    /\ pc \in {"chatbot", "tools"}
    /\ pc' = "returned"
    /\ response' =
         [result |-> "I apologize, but I encountered an error processing your request. Please try again.",
          status |-> "error", error |-> "<e>",
          session_id |-> event.session_id]
    /\ UNCHANGED <<event, environment, action_type, secret_name, conn, qi,
                   exc, calls, failed, results, formatted_output, db_opened,
                   db_open>>

\* graph.invoke returned: result = tmp_output['messages'][-1].content
AgentReturn ==
    /\ pc = "END"
    /\ pc' = "returned"
    /\ response' = [result |-> results[Len(results)].content,
                    status |-> "success",
                    session_id |-> event.session_id]
    /\ UNCHANGED <<event, environment, action_type, secret_name, conn, qi,
                   exc, calls, failed, results, formatted_output, db_opened,
                   db_open>>

NextAgent ==
    \/ AgentStart
    \/ chatbot
    \/ ToolNode
    \/ GraphRaises
    \/ AgentReturn

SpecAgent == InitAgent /\ [][NextAgent]_vars

\* C29: every run of the graph starts at the chatbot node; the tools node
\* runs only directly after a chatbot step whose message requests a tool,
\* every tools step is directly followed by a chatbot step, and the run
\* ends only after a chatbot step whose message requests no tool.
C29_GraphAlternatesAndEndsAtChatbot ==
    [][LET last2 == results'[Len(results')]
       IN  /\ pc = "START" => pc' = "chatbot"
           /\ pc' = "tools" =>
                 /\ pc = "chatbot"
                 /\ last2.role = "ai" /\ last2.tool_calls # <<>>
           /\ (pc = "tools" /\ pc' # "returned") => pc' = "chatbot"
           /\ pc' = "END" =>
                 /\ pc = "chatbot"
                 /\ last2.role = "ai" /\ last2.tool_calls = <<>>
           /\ (pc = "chatbot" /\ pc' \notin {"tools", "returned"}) =>
                 pc' = "END"]_vars

\* a run that went chatbot, tools, chatbot and ended
C29_Witness ==
    /\ pc = "END"
    /\ Len(results) = 4
    /\ results[2] = AIMessage("let me check", <<"web_search">>)
    /\ results[3].role = "tool"
    /\ results[4] = AIMessage("answer", <<>>)

\* the model call of the latest chatbot step raised
ModelCallRaised ==
    /\ calls # <<>>
    /\ calls[Len(calls)].op = "llm.invoke"
    /\ ~calls[Len(calls)].ok

\* C30: agent_invocation never raises: it always returns a dict whose
\* session_id is its argument and whose status is "success" or "error", with
\* the key error present exactly when the status is "error".  When the model
\* call inside the chatbot node raises, the node answers with an apology that
\* requests no tool, the run ends, and agent_invocation returns status
\* "success" with the apology as result.
C30_AlwaysADictAndApologyIsSuccess ==
    /\ pc = "returned" =>
          /\ {"result", "status", "session_id"} \subseteq DOMAIN response
          /\ response.session_id = event.session_id
          /\ response.status \in {"success", "error"}
          /\ ("error" \in DOMAIN response) <=> (response.status = "error")
    /\ pc # "returned" => response = NoResponse
    /\ ModelCallRaised =>
          /\ results[Len(results)] = ErrorResponse
          /\ ErrorResponse.tool_calls = <<>>
          /\ pc \in {"END", "returned"}
          /\ pc = "returned" =>
                /\ response.status = "success"
                /\ response.result = ErrorResponse.content

\* the model call raised after a tool round and the apology was returned
C30_Witness ==
    /\ pc = "returned"
    /\ ModelCallRaised
    /\ Len(results) = 4
    /\ response.status = "success"
    /\ response.result = "I apologize, but I encountered an error: <e>"

\* graph.invoke raised and the error dict was returned
C30_WitnessError ==
    /\ pc = "returned"
    /\ response.status = "error"
    /\ "error" \in DOMAIN response
    /\ response.session_id = "task_session"

====
